---- MODULE Spec2Model ----
(***************************************************************************)
(* A model of xiangqi-translator: the board (board.py), the move           *)
(* validator (move_validation.py), the notation parser                     *)
(* (chinese_notation.py) and the translator (translator.py, __init__.py).  *)
(*                                                                         *)
(* Python objects are values that carry their identity: a board is a       *)
(* record whose field id names the object, the constructor gives a new id, *)
(* and a mutating method returns the object (same id) with the new         *)
(* contents.  A method that may write returns [ret, self]: its return      *)
(* value and its receiver as the call leaves it.                           *)
(*                                                                         *)
(* Glyphs are written in pinyin, SANY reads ASCII only:                    *)
(*   shuai shi_r xiang_r ma ju pao bing   (red king .. pawn)               *)
(*   jiang shi_b xiang_b pao_b zu         (black king, advisor, elephant,  *)
(*                                         the other cannon glyph, pawn)   *)
(*   yi er san si wu liu qi ba jiu        (Chinese numerals 1..9)          *)
(*   F1..F9 (full-width digits), "1".."9" (ASCII digits)                   *)
(*   jin tui ping shang xia heng          (advance retreat traverse, and   *)
(*                                         their alternatives)             *)
(*   qian hou zhong                       (front back middle)              *)
(***************************************************************************)
EXTENDS Integers, Sequences, FiniteSets, TLC

VARIABLES board, op, arg, ret, locals

vars == <<board, op, arg, ret, locals>>

---------------------------------------------------------------------------
(* board.py: Color, PieceType, Piece, Position                             *)

RED == "red"

BLACK == "black"

Colors == {RED, BLACK}

KING == "king"

ADVISOR == "advisor"

ELEPHANT == "elephant"

HORSE == "horse"

CHARIOT == "chariot"

CANNON == "cannon"

PAWN == "pawn"

PieceTypes == {KING, ADVISOR, ELEPHANT, HORSE, CHARIOT, CANNON, PAWN}

\* Python's None where a Piece is expected (an empty square).
None == [piece_type |-> "none", color |-> "none"]

Piece(piece_type, color) == [piece_type |-> piece_type, color |-> color]

Files == 0..8

Ranks == 0..9

Position(file, rank) == [file |-> file, rank |-> rank]

Squares == {Position(f, r) : f \in Files, r \in Ranks}

\* Piece.__str__: the FEN letter of a piece.
Piece_str(piece) ==
    LET up == CASE piece.piece_type = KING -> "K"
                [] piece.piece_type = ADVISOR -> "A"
                [] piece.piece_type = ELEPHANT -> "B"
                [] piece.piece_type = HORSE -> "N"
                [] piece.piece_type = CHARIOT -> "R"
                [] piece.piece_type = CANNON -> "C"
                [] piece.piece_type = PAWN -> "P"
        lo == CASE piece.piece_type = KING -> "k"
                [] piece.piece_type = ADVISOR -> "a"
                [] piece.piece_type = ELEPHANT -> "b"
                [] piece.piece_type = HORSE -> "n"
                [] piece.piece_type = CHARIOT -> "r"
                [] piece.piece_type = CANNON -> "c"
                [] piece.piece_type = PAWN -> "p"
    IN IF piece.color = RED THEN up ELSE lo

\* Piece.from_char: the piece of a FEN letter, None for any other character.
Piece_from_char(char) ==
    CASE char = "K" -> Piece(KING, RED)
      [] char = "k" -> Piece(KING, BLACK)
      [] char = "A" -> Piece(ADVISOR, RED)
      [] char = "a" -> Piece(ADVISOR, BLACK)
      [] char = "B" -> Piece(ELEPHANT, RED)
      [] char = "b" -> Piece(ELEPHANT, BLACK)
      [] char = "N" -> Piece(HORSE, RED)
      [] char = "n" -> Piece(HORSE, BLACK)
      [] char = "R" -> Piece(CHARIOT, RED)
      [] char = "r" -> Piece(CHARIOT, BLACK)
      [] char = "C" -> Piece(CANNON, RED)
      [] char = "c" -> Piece(CANNON, BLACK)
      [] char = "P" -> Piece(PAWN, RED)
      [] char = "p" -> Piece(PAWN, BLACK)
      [] OTHER -> None

FileLetters == <<"a", "b", "c", "d", "e", "f", "g", "h", "i">>

DigitChars == <<"0", "1", "2", "3", "4", "5", "6", "7", "8", "9">>

\* Position.__str__: ICCS coordinates, file letter then rank digit.
Position_str(pos) == <<FileLetters[pos.file + 1], DigitChars[pos.rank + 1]>>

---------------------------------------------------------------------------
(* board.py: XiangqiBoard                                                  *)

\* XiangqiBoard.__init__: a new object, named id, with an empty grid.
XiangqiBoard(id) ==
    [id |-> id,
     board |-> [r \in Ranks |-> [f \in Files |-> None]],
     active_color |-> RED,
     halfmove_clock |-> 0,
     fullmove_number |-> 1]

get_piece(b, pos) == b.board[pos.rank][pos.file]

\* set_piece writes into the object it is called on.
set_piece(b, pos, piece) == [b EXCEPT !.board[pos.rank][pos.file] = piece]

\* move_piece without its second write: the source square keeps the piece.
move_piece_source_kept(b, from_pos, to_pos) ==
    LET piece == get_piece(b, from_pos)
        captured == get_piece(b, to_pos)
    IN [self |-> set_piece(b, to_pos, piece),
        ret |-> captured]

\* move_piece: [self |-> the receiver after the two writes, ret |-> captured].
move_piece(b, from_pos, to_pos) ==
    LET piece == get_piece(b, from_pos)
        captured == get_piece(b, to_pos)
    IN [self |-> set_piece(set_piece(b, to_pos, piece), from_pos, None),
        ret |-> captured]

is_within_palace(pos, color) ==
    IF color = RED
    THEN 3 <= pos.file /\ pos.file <= 5 /\ 0 <= pos.rank /\ pos.rank <= 2
    ELSE 3 <= pos.file /\ pos.file <= 5 /\ 7 <= pos.rank /\ pos.rank <= 9

is_within_territory(pos, color) ==
    IF color = RED
    THEN 0 <= pos.rank /\ pos.rank <= 4
    ELSE 5 <= pos.rank /\ pos.rank <= 9

\* What object `self` holds once object `written` has been written to: the
\* write is seen through self exactly when the two are the same object.
seen_by(self, written) == IF written.id = self.id THEN written ELSE self

---------------------------------------------------------------------------
(* Text.  A str is a sequence of one-character strings.  A call that may   *)
(* raise returns [raised, ret]: raised is the exception's name, "" when    *)
(* the call returned.                                                      *)

NoError == ""

ValueError == "ValueError"

IndexError == "IndexError"

Digits == {"0", "1", "2", "3", "4", "5", "6", "7", "8", "9"}

\* str.isdigit on one character of the texts considered here.
isdigit(char) == char \in Digits

digit_value(char) == CHOOSE n \in 0..9 : DigitChars[n + 1] = char

\* str(n) of an int.
RECURSIVE py_str(_)
py_str(n) ==
    IF n < 0 THEN <<"-">> \o py_str(0 - n)
    ELSE IF n < 10 THEN <<DigitChars[n + 1]>>
    ELSE py_str(n \div 10) \o <<DigitChars[(n % 10) + 1]>>

RECURSIVE digits_value(_, _)
digits_value(s, acc) ==
    IF s = <<>> THEN acc
    ELSE digits_value(Tail(s), acc * 10 + digit_value(Head(s)))

\* Variant of int below that reads 0 from a text that is no number.
py_int_lenient(s) ==
    [raised |-> NoError,
     ret |-> IF s # <<>> /\ \A i \in 1..Len(s) : isdigit(s[i]) THEN digits_value(s, 0) ELSE 0]

\* int(s): an optional sign and at least one digit, ValueError otherwise.
py_int(s) ==
    LET signed == s # <<>> /\ Head(s) \in {"+", "-"}
        body == IF signed THEN Tail(s) ELSE s
        ok == body # <<>> /\ \A i \in 1..Len(body) : isdigit(body[i])
    IN IF ~ok THEN [raised |-> ValueError, ret |-> 0]
       ELSE [raised |-> NoError,
             ret |-> IF signed /\ Head(s) = "-"
                     THEN 0 - digits_value(body, 0)
                     ELSE digits_value(body, 0)]

Whitespace == {" "}

\* The members of a finite set of integers, as an increasing sequence.
ordered(K) ==
    [k \in 1..Cardinality(K) |-> CHOOSE i \in K : Cardinality({j \in K : j < i}) = k - 1]

min_of(K) == CHOOSE i \in K : \A j \in K : i <= j

\* str.split(): the maximal runs of non-whitespace characters, in order.
split_ws(s) ==
    LET first == {i \in 1..Len(s) : s[i] \notin Whitespace
                                     /\ (i = 1 \/ s[i - 1] \in Whitespace)}
        last == {i \in 1..Len(s) : s[i] \notin Whitespace
                                    /\ (i = Len(s) \/ s[i + 1] \in Whitespace)}
        from == ordered(first)
        to == ordered(last)
    IN [k \in 1..Cardinality(first) |-> SubSeq(s, from[k], to[k])]

\* str.split(sep): the pieces between the separators, empty pieces kept.
split_sep(s, sep) ==
    LET seps == {i \in 1..Len(s) : s[i] = sep}
        n == Cardinality(seps)
        cut == ordered(seps)
    IN [k \in 1..(n + 1) |-> SubSeq(s, IF k = 1 THEN 1 ELSE cut[k - 1] + 1,
                                       IF k = n + 1 THEN Len(s) ELSE cut[k] - 1)]

\* sep.join(parts)
RECURSIVE join(_, _)
join(sep, parts) ==
    IF parts = <<>> THEN <<>>
    ELSE IF Len(parts) = 1 THEN parts[1]
    ELSE parts[1] \o sep \o join(sep, Tail(parts))

---------------------------------------------------------------------------
(* board.py: to_fen, from_fen, initial_position, copy                      *)

\* Variant of to_fen_rank below that leaves out the empty squares a rank
\* record ends with.
RECURSIVE to_fen_rank_unflushed(_, _, _, _, _)
to_fen_rank_unflushed(b, rank, file, rank_str, empty_count) ==
    IF file > 8 THEN rank_str
    ELSE LET piece == b.board[rank][file]
         IN IF piece = None
            THEN to_fen_rank_unflushed(b, rank, file + 1, rank_str, empty_count + 1)
            ELSE to_fen_rank_unflushed(b, rank, file + 1,
                                       (IF empty_count > 0
                                        THEN rank_str \o py_str(empty_count)
                                        ELSE rank_str) \o <<Piece_str(piece)>>,
                                       0)

\* The inner loop of to_fen: one rank record, files 0..8.
RECURSIVE to_fen_rank(_, _, _, _, _)
to_fen_rank(b, rank, file, rank_str, empty_count) ==
    IF file > 8
    THEN (IF empty_count > 0 THEN rank_str \o py_str(empty_count) ELSE rank_str)
    ELSE LET piece == b.board[rank][file]
         IN IF piece = None
            THEN to_fen_rank(b, rank, file + 1, rank_str, empty_count + 1)
            ELSE to_fen_rank(b, rank, file + 1,
                             (IF empty_count > 0
                              THEN rank_str \o py_str(empty_count)
                              ELSE rank_str) \o <<Piece_str(piece)>>,
                             0)

to_fen(b) ==
    LET fen_parts == [i \in 1..10 |-> to_fen_rank(b, 10 - i, 0, <<>>, 0)]
        board_fen == join(<<"/">>, fen_parts)
        color_char == IF b.active_color = RED THEN "w" ELSE "b"
    IN board_fen \o <<" ", color_char, " ", "-", " ", "-", " ">>
           \o py_str(b.halfmove_clock) \o <<" ">> \o py_str(b.fullmove_number)

\* The inner loop of from_fen over the characters of one rank record:
\* st = [b, file, raised].  set_piece beyond file 8 is an IndexError.
RECURSIVE from_fen_rank(_, _, _)
from_fen_rank(st, rank, rank_str) ==
    IF rank_str = <<>> \/ st.raised # NoError THEN st
    ELSE LET char == Head(rank_str)
             piece == Piece_from_char(char)
         IN IF isdigit(char)
            THEN from_fen_rank([st EXCEPT !.file = @ + digit_value(char)],
                               rank, Tail(rank_str))
            ELSE IF piece = None
            THEN from_fen_rank([st EXCEPT !.file = @ + 1], rank, Tail(rank_str))
            ELSE IF st.file > 8
            THEN [st EXCEPT !.raised = IndexError]
            ELSE from_fen_rank([st EXCEPT !.b = set_piece(@, Position(st.file, rank), piece),
                                          !.file = @ + 1],
                               rank, Tail(rank_str))

\* The outer loop of from_fen over the rank records, the far rank first.
RECURSIVE from_fen_ranks(_, _, _)
from_fen_ranks(st, ranks, rank_idx) ==
    IF rank_idx >= Len(ranks) \/ st.raised # NoError THEN st
    ELSE from_fen_ranks(from_fen_rank([st EXCEPT !.file = 0], 9 - rank_idx,
                                      ranks[rank_idx + 1]),
                        ranks, rank_idx + 1)

\* from_fen's raise: no board is returned.
from_fen_raise(e, id) == [raised |-> e, ret |-> XiangqiBoard(id)]

\* from_fen after its loops: the side to move and the two clocks are written
\* into the board b the loops filled; half and full are what int() makes of
\* the fifth and sixth field, read when the field is there.
from_fen_clocks(b, parts, half, full) ==
    IF Len(parts) > 4 /\ half.raised # NoError THEN from_fen_raise(half.raised, b.id)
    ELSE IF Len(parts) > 5 /\ full.raised # NoError THEN from_fen_raise(full.raised, b.id)
    ELSE [raised |-> NoError,
          ret |-> [b EXCEPT !.active_color = IF parts[2] = <<"w">> THEN RED ELSE BLACK,
                            !.halfmove_clock = IF Len(parts) > 4 THEN half.ret ELSE @,
                            !.fullmove_number = IF Len(parts) > 5 THEN full.ret ELSE @]]

\* from_fen once the loops over the rank records have ended in placed.
from_fen_placed(placed, parts, id) ==
    IF placed.raised # NoError THEN from_fen_raise(placed.raised, id)
    ELSE from_fen_clocks(placed.b, parts, py_int(parts[5]), py_int(parts[6]))

\* from_fen once the board field is split into ranks.
from_fen_board(ranks, parts, id) ==
    IF Len(ranks) # 10 THEN from_fen_raise(ValueError, id)
    ELSE from_fen_placed(from_fen_ranks([b |-> XiangqiBoard(id), file |-> 0,
                                         raised |-> NoError],
                                        ranks, 0),
                         parts, id)

\* from_fen once the text is split into parts.
from_fen_parts(parts, id) ==
    IF Len(parts) < 4 THEN from_fen_raise(ValueError, id)
    ELSE from_fen_board(split_sep(parts[1], "/"), parts, id)

\* XiangqiBoard.from_fen: [raised, ret]; id names the object the constructor
\* makes.
from_fen(fen, id) == from_fen_parts(split_ws(fen), id)

InitialFen ==
    <<"r","n","b","a","k","a","b","n","r","/","9","/","1","c","5","c","1","/",
      "p","1","p","1","p","1","p","1","p","/","9","/","9","/",
      "P","1","P","1","P","1","P","1","P","/","1","C","5","C","1","/","9","/",
      "R","N","B","A","K","A","B","N","R"," ","w"," ","-"," ","-"," ","0"," ","1">>

initial_position(id) == from_fen(InitialFen, id).ret

\* Variant of copy below that hands back the board itself.
copy_alias(b) == b

\* XiangqiBoard.copy: a new object, read back from the text of this one.
copy(b) == from_fen(to_fen(b), b.id + 1).ret


---------------------------------------------------------------------------
(* move_validation.py: MoveValidator.  The validator's board is the first  *)
(* parameter b of every operator.                                          *)

abs(n) == IF n < 0 THEN 0 - n ELSE n

\* Python's floor division by two, for the differences -2..2 used here.
floordiv2(n) == IF n >= 0 THEN n \div 2 ELSE 0 - ((1 - n) \div 2)

sign_step(from_c, to_c) == IF from_c = to_c THEN 0 ELSE IF to_c > from_c THEN 1 ELSE -1

\* The scan "for rank in range(10): for file in range(9)", as a sequence.
ScanOrder == [i \in 1..90 |-> Position((i - 1) % 9, (i - 1) \div 9)]

is_position_valid(pos) ==
    0 <= pos.file /\ pos.file <= 8 /\ 0 <= pos.rank /\ pos.rank <= 9

\* The walk of _is_path_clear and _count_pieces_between: the squares visited
\* from the square after from_pos until to_pos is reached.
RECURSIVE walk(_, _, _, _, _)
walk(cur_file, cur_rank, file_step, rank_step, to_pos) ==
    IF cur_file = to_pos.file /\ cur_rank = to_pos.rank THEN <<>>
    ELSE <<Position(cur_file, cur_rank)>>
             \o walk(cur_file + file_step, cur_rank + rank_step, file_step, rank_step, to_pos)

squares_between(from_pos, to_pos) ==
    LET file_step == sign_step(from_pos.file, to_pos.file)
        rank_step == sign_step(from_pos.rank, to_pos.rank)
    IN walk(from_pos.file + file_step, from_pos.rank + rank_step, file_step, rank_step, to_pos)

is_path_clear(b, from_pos, to_pos) ==
    LET sq == squares_between(from_pos, to_pos)
    IN \A i \in 1..Len(sq) : get_piece(b, sq[i]) = None

count_pieces_between(b, from_pos, to_pos) ==
    LET sq == squares_between(from_pos, to_pos)
    IN Cardinality({i \in 1..Len(sq) : get_piece(b, sq[i]) # None})

\* _would_kings_face_each_other after the move is made on temp_board.
kings_face_on(b, temp_board) ==
    LET red == {pos \in Squares : get_piece(temp_board, pos) = Piece(KING, RED)}
        black == {pos \in Squares : get_piece(temp_board, pos) = Piece(KING, BLACK)}
        last(S) == CHOOSE pos \in S : \A q \in S :
                       q.rank < pos.rank \/ (q.rank = pos.rank /\ q.file <= pos.file)
        red_king_pos == last(red)
        black_king_pos == last(black)
    IN [ret |-> IF red = {} \/ black = {} THEN FALSE
                ELSE IF red_king_pos.file # black_king_pos.file THEN FALSE
                ELSE is_path_clear(temp_board, red_king_pos, black_king_pos),
        self |-> seen_by(b, temp_board)]

\* The simulation made on the validator's own board.
would_kings_face_each_other_in_place(b, from_pos, to_pos) ==
    kings_face_on(b, move_piece(b, from_pos, to_pos).self)

\* [ret, self]: the simulation is made on temp_board, the copy.
would_kings_face_each_other(b, from_pos, to_pos) ==
    kings_face_on(b, move_piece(copy(b), from_pos, to_pos).self)

\* "if <call>: return False; return True" of a call that answers [ret, self].
negated(r) == [ret |-> ~r.ret, self |-> r.self]

\* The King's rule without the look at the Kings after the move.
is_king_move_valid_facing_unchecked(b, piece, from_pos, to_pos) ==
    LET file_diff == abs(to_pos.file - from_pos.file)
        rank_diff == abs(to_pos.rank - from_pos.rank)
    IN IF ~is_within_palace(to_pos, piece.color) THEN [ret |-> FALSE, self |-> b]
       ELSE IF ~((file_diff = 1 /\ rank_diff = 0) \/ (file_diff = 0 /\ rank_diff = 1))
       THEN [ret |-> FALSE, self |-> b]
       ELSE [ret |-> TRUE, self |-> b]

is_king_move_valid(b, piece, from_pos, to_pos) ==
    LET file_diff == abs(to_pos.file - from_pos.file)
        rank_diff == abs(to_pos.rank - from_pos.rank)
    IN IF ~is_within_palace(to_pos, piece.color) THEN [ret |-> FALSE, self |-> b]
       ELSE IF ~((file_diff = 1 /\ rank_diff = 0) \/ (file_diff = 0 /\ rank_diff = 1))
       THEN [ret |-> FALSE, self |-> b]
       ELSE negated(would_kings_face_each_other(b, from_pos, to_pos))

\* Variant of the Advisor's rule below that lets it leave the palace.
is_advisor_move_valid_any_square(b, piece, from_pos, to_pos) ==
    LET file_diff == abs(to_pos.file - from_pos.file)
        rank_diff == abs(to_pos.rank - from_pos.rank)
    IN file_diff = 1 /\ rank_diff = 1

is_advisor_move_valid(b, piece, from_pos, to_pos) ==
    LET file_diff == abs(to_pos.file - from_pos.file)
        rank_diff == abs(to_pos.rank - from_pos.rank)
    IN IF ~is_within_palace(to_pos, piece.color) THEN FALSE
       ELSE file_diff = 1 /\ rank_diff = 1

is_elephant_move_valid(b, piece, from_pos, to_pos) ==
    LET file_diff == to_pos.file - from_pos.file
        rank_diff == to_pos.rank - from_pos.rank
        block_pos == Position(from_pos.file + floordiv2(file_diff),
                              from_pos.rank + floordiv2(rank_diff))
    IN IF ~is_within_territory(to_pos, piece.color) THEN FALSE
       ELSE IF abs(file_diff) # 2 \/ abs(rank_diff) # 2 THEN FALSE
       ELSE get_piece(b, block_pos) = None

\* Variant of the Horse's rule below that looks at the leg of the moves two
\* files wide only.
is_horse_move_valid_wide_leg(b, piece, from_pos, to_pos) ==
    LET file_diff == to_pos.file - from_pos.file
        rank_diff == to_pos.rank - from_pos.rank
    IN IF ~((abs(file_diff) = 2 /\ abs(rank_diff) = 1)
             \/ (abs(file_diff) = 1 /\ abs(rank_diff) = 2))
       THEN FALSE
       ELSE IF abs(file_diff) = 2
       THEN get_piece(b, Position(from_pos.file + floordiv2(file_diff), from_pos.rank)) = None
       ELSE TRUE

is_horse_move_valid(b, piece, from_pos, to_pos) ==
    LET file_diff == to_pos.file - from_pos.file
        rank_diff == to_pos.rank - from_pos.rank
        block_pos == IF abs(file_diff) = 2
                     THEN Position(from_pos.file + floordiv2(file_diff), from_pos.rank)
                     ELSE Position(from_pos.file, from_pos.rank + floordiv2(rank_diff))
    IN IF ~((abs(file_diff) = 2 /\ abs(rank_diff) = 1)
             \/ (abs(file_diff) = 1 /\ abs(rank_diff) = 2))
       THEN FALSE
       ELSE get_piece(b, block_pos) = None

is_chariot_move_valid(b, piece, from_pos, to_pos) ==
    IF from_pos.file # to_pos.file /\ from_pos.rank # to_pos.rank THEN FALSE
    ELSE is_path_clear(b, from_pos, to_pos)

\* Variant of the Cannon's rule below that captures over any number of
\* pieces but none.
is_cannon_move_valid_any_screen(b, piece, from_pos, to_pos) ==
    LET target_piece == get_piece(b, to_pos)
    IN IF from_pos.file # to_pos.file /\ from_pos.rank # to_pos.rank THEN FALSE
       ELSE IF target_piece = None THEN is_path_clear(b, from_pos, to_pos)
       ELSE count_pieces_between(b, from_pos, to_pos) >= 1

is_cannon_move_valid(b, piece, from_pos, to_pos) ==
    LET target_piece == get_piece(b, to_pos)
    IN IF from_pos.file # to_pos.file /\ from_pos.rank # to_pos.rank THEN FALSE
       ELSE IF target_piece = None THEN is_path_clear(b, from_pos, to_pos)
       ELSE count_pieces_between(b, from_pos, to_pos) = 1

\* The Black bound of the river one rank off.
is_pawn_move_valid_river_one_off(b, piece, from_pos, to_pos) ==
    LET file_diff == to_pos.file - from_pos.file
        rank_diff == to_pos.rank - from_pos.rank
    IN IF abs(file_diff) + abs(rank_diff) # 1 THEN FALSE
       ELSE IF piece.color = RED
       THEN (IF rank_diff < 0 THEN FALSE
             ELSE IF from_pos.rank < 5 /\ file_diff # 0 THEN FALSE
             ELSE TRUE)
       ELSE (IF rank_diff > 0 THEN FALSE
             ELSE IF from_pos.rank > 5 /\ file_diff # 0 THEN FALSE
             ELSE TRUE)

is_pawn_move_valid(b, piece, from_pos, to_pos) ==
    LET file_diff == to_pos.file - from_pos.file
        rank_diff == to_pos.rank - from_pos.rank
    IN IF abs(file_diff) + abs(rank_diff) # 1 THEN FALSE
       ELSE IF piece.color = RED
       THEN (IF rank_diff < 0 THEN FALSE
             ELSE IF from_pos.rank < 5 /\ file_diff # 0 THEN FALSE
             ELSE TRUE)
       ELSE (IF rank_diff > 0 THEN FALSE
             ELSE IF from_pos.rank > 4 /\ file_diff # 0 THEN FALSE
             ELSE TRUE)

\* [ret, self]: only the King's rule simulates a move.
is_piece_move_valid(b, piece, from_pos, to_pos) ==
    CASE piece.piece_type = KING -> is_king_move_valid(b, piece, from_pos, to_pos)
      [] piece.piece_type = ADVISOR ->
             [ret |-> is_advisor_move_valid(b, piece, from_pos, to_pos), self |-> b]
      [] piece.piece_type = ELEPHANT ->
             [ret |-> is_elephant_move_valid(b, piece, from_pos, to_pos), self |-> b]
      [] piece.piece_type = HORSE ->
             [ret |-> is_horse_move_valid(b, piece, from_pos, to_pos), self |-> b]
      [] piece.piece_type = CHARIOT ->
             [ret |-> is_chariot_move_valid(b, piece, from_pos, to_pos), self |-> b]
      [] piece.piece_type = CANNON ->
             [ret |-> is_cannon_move_valid(b, piece, from_pos, to_pos), self |-> b]
      [] piece.piece_type = PAWN ->
             [ret |-> is_pawn_move_valid(b, piece, from_pos, to_pos), self |-> b]
      [] OTHER -> [ret |-> FALSE, self |-> b]

\* The King the two scans "for rank: for file: ... break" end on: the break
\* leaves the file loop only, so a later rank's King replaces an earlier one.
find_king(b, color) ==
    LET kings == {pos \in Squares : get_piece(b, pos) = Piece(KING, color)}
        found == CHOOSE pos \in kings : \A q \in kings :
                     q.rank < pos.rank \/ (q.rank = pos.rank /\ q.file >= pos.file)
    IN IF kings = {} THEN [found |-> FALSE, pos |-> Position(0, 0)]
       ELSE [found |-> TRUE, pos |-> found]

\* The loop over the enemy pieces of a validator on b: whether the pattern
\* of one of them reaches king_pos.
attacked(b, enemy_color, king_pos) ==
    \E i \in 1..90 :
        LET piece == get_piece(b, ScanOrder[i])
        IN /\ piece # None
           /\ piece.color = enemy_color
           /\ is_piece_move_valid(b, piece, ScanOrder[i], king_pos).ret

\* The enemy pieces' squares, as indices of the scan.
pieces_of(b, color) ==
    {i \in 1..90 : get_piece(b, ScanOrder[i]) # None
                     /\ get_piece(b, ScanOrder[i]).color = color}

\* What the loop leaves, given what each call of it would answer.  The calls
\* made are those up to the first that answers True; the receiver is b
\* unless a call wrote to it, and then as the first such call left it.
attack_scan_of(b, call) ==
    LET hits == {i \in DOMAIN call : call[i].ret}
        made == IF hits = {} THEN DOMAIN call ELSE {i \in DOMAIN call : i <= min_of(hits)}
        writers == {i \in made : call[i].self # b}
    IN [ret |-> hits # {},
        self |-> IF writers = {} THEN b ELSE call[min_of(writers)].self]

\* The same loop as [ret, self].
attack_scan(b, enemy_color, king_pos) ==
    attack_scan_of(b, [i \in pieces_of(b, enemy_color) |->
                          is_piece_move_valid(b, get_piece(b, ScanOrder[i]),
                                              ScanOrder[i], king_pos)])

\* Variant of the test below that finds no move exposing the King.
would_move_expose_king_never(b, from_pos, to_pos) == [ret |-> FALSE, self |-> b]

\* _would_move_expose_king after the move is made on temp_board: the attacks
\* on the mover's King are judged by a second validator, on temp_board.
king_exposed_on(b, temp_board, color) ==
    LET king == find_king(temp_board, color)
        enemy_color == IF color = RED THEN BLACK ELSE RED
    IN [ret |-> IF ~king.found THEN FALSE
                ELSE attacked(temp_board, enemy_color, king.pos),
        self |-> seen_by(b, temp_board)]

\* _would_move_expose_king once the copy is made.
king_exposed_by(b, copied, from_pos, to_pos) ==
    king_exposed_on(b, move_piece(copied, from_pos, to_pos).self,
                    get_piece(copied, from_pos).color)

\* [ret, self]: the simulation is made on temp_board, the copy.
would_move_expose_king(b, from_pos, to_pos) ==
    king_exposed_by(b, copy(b), from_pos, to_pos)

\* is_valid_move from the pattern test on: pattern is what
\* _is_piece_move_valid answered.
valid_after_pattern(pattern, from_pos, to_pos) ==
    IF ~pattern.ret THEN [ret |-> FALSE, self |-> pattern.self]
    ELSE negated(would_move_expose_king(pattern.self, from_pos, to_pos))

\* [ret, self]
is_valid_move(b, from_pos, to_pos) ==
    LET piece == get_piece(b, from_pos)
        target_piece == get_piece(b, to_pos)
    IN IF ~is_position_valid(from_pos) \/ ~is_position_valid(to_pos)
       THEN [ret |-> FALSE, self |-> b]
       ELSE IF piece = None THEN [ret |-> FALSE, self |-> b]
       ELSE IF target_piece # None /\ target_piece.color = piece.color
       THEN [ret |-> FALSE, self |-> b]
       ELSE valid_after_pattern(is_piece_move_valid(b, piece, from_pos, to_pos),
                                from_pos, to_pos)

\* is_valid_move up to and with the pattern test: [ret, self].
valid_until_pattern(b, from_pos, to_pos) ==
    IF ~is_position_valid(from_pos) \/ ~is_position_valid(to_pos)
    THEN [ret |-> FALSE, self |-> b]
    ELSE IF get_piece(b, from_pos) = None THEN [ret |-> FALSE, self |-> b]
    ELSE IF get_piece(b, to_pos) # None
            /\ get_piece(b, to_pos).color = get_piece(b, from_pos).color
    THEN [ret |-> FALSE, self |-> b]
    ELSE is_piece_move_valid(b, get_piece(b, from_pos), from_pos, to_pos)

\* The pairs of a loop from the one at cursor to the first that passes the
\* pattern test, at index: the receiver is b unless one of these tests wrote
\* to it, and then as the first such test left it.
pattern_pass_written(b, pairs, index, writers) ==
    [index |-> index,
     self |-> IF writers = {} THEN b
              ELSE valid_until_pattern(b, pairs[min_of(writers)][1],
                                       pairs[min_of(writers)][2]).self]

pattern_pass_at(b, pairs, cursor, index) ==
    pattern_pass_written(b, pairs, index,
                         {i \in cursor..index :
                              /\ i <= Len(pairs)
                              /\ valid_until_pattern(b, pairs[i][1], pairs[i][2]).self # b})

\* index is that of the first pair from cursor on that passes the pattern
\* test, Len(pairs) + 1 where none does.
pattern_pass(b, pairs, cursor) ==
    pattern_pass_at(b, pairs, cursor,
                    CHOOSE i \in cursor..(Len(pairs) + 1) :
                        /\ \/ i = Len(pairs) + 1
                           \/ valid_until_pattern(b, pairs[i][1], pairs[i][2]).ret
                        /\ \A j \in cursor..(i - 1) :
                               ~valid_until_pattern(b, pairs[j][1], pairs[j][2]).ret)

\* The pairs the two loops of get_legal_moves try, in scan order.
pairs_tried(b, color) ==
    LET from_squares == ordered(pieces_of(b, color))
    IN [k \in 1..(90 * Len(from_squares)) |->
            <<ScanOrder[from_squares[((k - 1) \div 90) + 1]], ScanOrder[((k - 1) % 90) + 1]>>]

\* [ret, self]
is_in_check(b, color) ==
    LET king == find_king(b, color)
        enemy_color == IF color = RED THEN BLACK ELSE RED
    IN IF ~king.found THEN [ret |-> FALSE, self |-> b]
       ELSE attack_scan(b, enemy_color, king.pos)

\* Variant of get_legal_moves below that lists from every piece of the
\* color the squares its movement pattern reaches.
get_pattern_moves(b, color) ==
    LET kept == ordered({(i - 1) * 90 + j : i \in {k \in 1..90 :
                                                     get_piece(b, ScanOrder[k]) # None
                                                     /\ get_piece(b, ScanOrder[k]).color = color},
                                            j \in 1..90}
                        \cap {v \in 1..8100 :
                                  is_piece_move_valid(b, get_piece(b, ScanOrder[((v - 1) \div 90) + 1]),
                                                      ScanOrder[((v - 1) \div 90) + 1],
                                                      ScanOrder[((v - 1) % 90) + 1]).ret})
    IN [ret |-> [k \in 1..Len(kept) |-> <<ScanOrder[((kept[k] - 1) \div 90) + 1],
                                          ScanOrder[((kept[k] - 1) % 90) + 1]>>],
        self |-> b]

\* What the two loops of get_legal_moves leave, given what each call of
\* is_valid_move answers: the pairs answered True, in scan order; the
\* receiver is b unless a call wrote to it, and then as the first such call
\* left it.
legal_moves_of(b, call) ==
    LET kept == ordered({v \in DOMAIN call : call[v].ret})
        writers == {v \in DOMAIN call : call[v].self # b}
    IN [ret |-> [k \in 1..Len(kept) |-> <<ScanOrder[((kept[k] - 1) \div 90) + 1],
                                          ScanOrder[((kept[k] - 1) % 90) + 1]>>],
        self |-> IF writers = {} THEN b ELSE call[min_of(writers)].self]

\* [ret, self]: ret is the list of (from, to) pairs.  Every pair of a square
\* holding a piece of the color and a square is tried, in scan order.
get_legal_moves(b, color) ==
    legal_moves_of(b, [v \in {(i - 1) * 90 + j : i \in pieces_of(b, color), j \in 1..90} |->
                          is_valid_move(b, ScanOrder[((v - 1) \div 90) + 1],
                                        ScanOrder[((v - 1) % 90) + 1])])

\* "return len(legal_moves) == 0"
none_left(moves) == [ret |-> Len(moves.ret) = 0, self |-> moves.self]

\* Variant of checkmate_after below that does not ask for a check.
checkmate_unchecked(chk, color) == none_left(get_legal_moves(chk.self, color))

\* is_checkmate once is_in_check has answered chk.
checkmate_after(chk, color) ==
    IF ~chk.ret THEN [ret |-> FALSE, self |-> chk.self]
    ELSE none_left(get_legal_moves(chk.self, color))

\* [ret, self]
is_checkmate(b, color) == checkmate_after(is_in_check(b, color), color)

\* is_stalemate once is_in_check has answered chk.
stalemate_after(chk, color) ==
    IF chk.ret THEN [ret |-> FALSE, self |-> chk.self]
    ELSE none_left(get_legal_moves(chk.self, color))

\* [ret, self]
is_stalemate(b, color) == stalemate_after(is_in_check(b, color), color)

---------------------------------------------------------------------------
(* chinese_notation.py.  A notation is a sequence of glyphs.  An Optional  *)
(* value is a sequence: <<>> is None, <<v>> is v.  An Optional[bool] is    *)
(* one of "None", "True", "False".                                         *)

CHINESE_PIECES ==
    [shuai |-> KING, shi_r |-> ADVISOR, xiang_r |-> ELEPHANT, ma |-> HORSE,
     ju |-> CHARIOT, pao |-> CANNON, bing |-> PAWN,
     jiang |-> KING, shi_b |-> ADVISOR, xiang_b |-> ELEPHANT,
     pao_b |-> CANNON, zu |-> PAWN]

PieceGlyphs == DOMAIN CHINESE_PIECES

NumberGlyphs ==
    <<<<"yi", "F1", "1">>, <<"er", "F2", "2">>, <<"san", "F3", "3">>,
      <<"si", "F4", "4">>, <<"wu", "F5", "5">>, <<"liu", "F6", "6">>,
      <<"qi", "F7", "7">>, <<"ba", "F8", "8">>, <<"jiu", "F9", "9">>>>

AllNumberGlyphs == {NumberGlyphs[n][k] : n \in 1..9, k \in 1..3}

\* CHINESE_NUMBERS[glyph]
CHINESE_NUMBERS(glyph) == CHOOSE n \in 1..9 : \E k \in 1..3 : NumberGlyphs[n][k] = glyph

MOVEMENT_INDICATORS ==
    [jin |-> "advance", tui |-> "retreat", ping |-> "traverse",
     shang |-> "advance", xia |-> "retreat", heng |-> "traverse"]

MovementGlyphs == DOMAIN MOVEMENT_INDICATORS

DisambigGlyphs == {"qian", "hou", "zhong"}

\* A chinese_move argument that is no str (None): its .strip() raises.
NotAStr == <<"<None>">>

AttributeError == "AttributeError"

ParsedMove(piece_type, color, source_file, movement, target, is_front, is_middle) ==
    [piece_type |-> piece_type, color |-> color, source_file |-> source_file,
     movement |-> movement, target |-> target,
     is_front |-> is_front, is_middle |-> is_middle]

\* str.strip()
RECURSIVE lstrip(_)
lstrip(s) == IF s # <<>> /\ Head(s) \in Whitespace THEN lstrip(Tail(s)) ELSE s

RECURSIVE rstrip(_)
rstrip(s) ==
    IF s # <<>> /\ s[Len(s)] \in Whitespace THEN rstrip(SubSeq(s, 1, Len(s) - 1)) ELSE s

strip(s) == rstrip(lstrip(s))

\* disambig_pattern.match: the four glyph classes at the start of the text.
disambig_match(s) ==
    /\ Len(s) >= 4
    /\ s[1] \in DisambigGlyphs
    /\ s[2] \in PieceGlyphs
    /\ s[3] \in MovementGlyphs
    /\ s[4] \in AllNumberGlyphs

\* standard_pattern.match
standard_match(s) ==
    /\ Len(s) >= 4
    /\ s[1] \in PieceGlyphs
    /\ s[2] \in AllNumberGlyphs
    /\ s[3] \in MovementGlyphs
    /\ s[4] \in AllNumberGlyphs

\* parse_move on the stripped text s.
parse_stripped(s, color) ==
    IF disambig_match(s)
    THEN [raised |-> NoError,
          ret |-> <<ParsedMove(CHINESE_PIECES[s[2]], color, 0,
                               MOVEMENT_INDICATORS[s[3]], CHINESE_NUMBERS(s[4]),
                               CASE s[1] = "qian" -> "True"
                                 [] s[1] = "hou" -> "False"
                                 [] OTHER -> "None",
                               IF s[1] = "zhong" THEN "True" ELSE "None")>>]
    ELSE IF standard_match(s)
    THEN [raised |-> NoError,
          ret |-> <<ParsedMove(CHINESE_PIECES[s[1]], color, CHINESE_NUMBERS(s[2]),
                               MOVEMENT_INDICATORS[s[3]], CHINESE_NUMBERS(s[4]),
                               "None", "None")>>]
    ELSE [raised |-> NoError, ret |-> <<>>]

\* [raised, ret]: ret is an Optional[ParsedMove].
parse_move(move_str, color) ==
    IF move_str = NotAStr THEN [raised |-> AttributeError, ret |-> <<>>]
    ELSE parse_stripped(strip(move_str), color)

\* Variant of the mapping below that counts the files of both sides from
\* the same edge.
convert_file_one_edge(chinese_file, color) == chinese_file - 1

convert_file_to_board_coordinate(chinese_file, color) ==
    IF color = RED THEN 9 - chinese_file ELSE chinese_file - 1

---------------------------------------------------------------------------
(* translator.py                                                           *)

\* TranslationResult; the Optional fields default to None.
TranslationResult(success, iccs_move, error_message, board_after_move) ==
    [success |-> success, iccs_move |-> iccs_move,
     error_message |-> error_message, board_after_move |-> board_after_move]

\* The fixed parts of the error messages.
MsgUnparsable == <<"wufa jiexi", "zhongwen qipu: ">>

MsgNotFound == <<"zhaobudao", "fuhe tiaojian de qizi: ">>

MsgInvalid == <<"wuxiao de yidong", ": ">>

MsgAmbiguous == <<"yidong", "bu mingque", ", zhaodao duoge keneng de yidong: ">>

MsgError == <<"fanyi cuowu: ">>

MsgFen == <<"FEN geshi cuowu: ">>

is_piece_movement_pattern_valid(piece_type, from_pos, to_pos, movement, color) ==
    LET file_diff == abs(to_pos.file - from_pos.file)
        rank_diff == abs(to_pos.rank - from_pos.rank)
    IN CASE piece_type = HORSE ->
               (file_diff = 2 /\ rank_diff = 1) \/ (file_diff = 1 /\ rank_diff = 2)
         [] piece_type = ADVISOR -> file_diff = 1 /\ rank_diff = 1
         [] piece_type = ELEPHANT -> file_diff = 2 /\ rank_diff = 2
         [] OTHER -> TRUE

\* The loop "for rank in range(10)" of the two functions below.
RECURSIVE pattern_scan(_, _, _, _, _)
pattern_scan(parsed_move, from_pos, target_board_file, movement, rank) ==
    IF rank > 9 THEN <<>>
    ELSE LET target_pos == Position(target_board_file, rank)
         IN (IF is_piece_movement_pattern_valid(parsed_move.piece_type, from_pos,
                                                target_pos, movement, parsed_move.color)
             THEN <<target_pos>>
             ELSE <<>>)
                \o pattern_scan(parsed_move, from_pos, target_board_file, movement, rank + 1)

\* The shared body of _calculate_advance_positions (direction 1 for Red, -1
\* for Black) and _calculate_retreat_positions (the opposite direction).
calculate_positions(b, from_pos, parsed_move, movement, direction) ==
    LET new_rank == from_pos.rank + (parsed_move.target * direction)
        target_board_file ==
            convert_file_to_board_coordinate(parsed_move.target, parsed_move.color)
    IN IF parsed_move.piece_type \in {CHARIOT, CANNON, PAWN, KING}
       THEN (IF 0 <= new_rank /\ new_rank <= 9
             THEN <<Position(from_pos.file, new_rank)>>
             ELSE <<>>)
       ELSE IF parsed_move.piece_type \in {HORSE, ADVISOR, ELEPHANT}
       THEN pattern_scan(parsed_move, from_pos, target_board_file, movement, 0)
       ELSE <<>>

calculate_advance_positions(b, from_pos, parsed_move) ==
    calculate_positions(b, from_pos, parsed_move, "advance",
                        IF parsed_move.color = RED THEN 1 ELSE -1)

\* A retreat computed in the direction of an advance.
calculate_retreat_positions_forward(b, from_pos, parsed_move) ==
    calculate_positions(b, from_pos, parsed_move, "retreat",
                        IF parsed_move.color = RED THEN 1 ELSE -1)

calculate_retreat_positions(b, from_pos, parsed_move) ==
    calculate_positions(b, from_pos, parsed_move, "retreat",
                        IF parsed_move.color = RED THEN -1 ELSE 1)

calculate_target_positions(b, from_pos, parsed_move) ==
    CASE parsed_move.movement = "traverse" ->
             <<Position(convert_file_to_board_coordinate(parsed_move.target,
                                                         parsed_move.color),
                        from_pos.rank)>>
      [] parsed_move.movement = "advance" ->
             calculate_advance_positions(b, from_pos, parsed_move)
      [] parsed_move.movement = "retreat" ->
             calculate_retreat_positions(b, from_pos, parsed_move)
      [] OTHER -> <<>>

\* list.sort(key=rank, reverse=...): a stable insertion, equal keys keep
\* their order in both directions.
RECURSIVE sort_insert(_, _, _)
sort_insert(sorted, pos, reverse) ==
    IF sorted = <<>> THEN <<pos>>
    ELSE IF (IF reverse THEN Head(sorted).rank >= pos.rank
                        ELSE Head(sorted).rank <= pos.rank)
         THEN <<Head(sorted)>> \o sort_insert(Tail(sorted), pos, reverse)
         ELSE <<pos>> \o sorted

\* The sort made in ascending order for both sides.
RECURSIVE sort_by_rank_ascending(_, _, _)
sort_by_rank_ascending(pieces, sorted, reverse) ==
    IF pieces = <<>> THEN sorted
    ELSE sort_by_rank_ascending(Tail(pieces), sort_insert(sorted, Head(pieces), FALSE),
                                reverse)

RECURSIVE sort_by_rank(_, _, _)
sort_by_rank(pieces, sorted, reverse) ==
    IF pieces = <<>> THEN sorted
    ELSE sort_by_rank(Tail(pieces), sort_insert(sorted, Head(pieces), reverse), reverse)

\* The keys of pieces_by_file, in the order the dict got them.
RECURSIVE files_in_order(_, _)
files_in_order(pieces, seen) ==
    IF pieces = <<>> THEN seen
    ELSE files_in_order(Tail(pieces),
                        IF \E i \in 1..Len(seen) : seen[i] = Head(pieces).file
                        THEN seen
                        ELSE Append(seen, Head(pieces).file))

\* The positions of a list that stand on one file, in the list's order.
RECURSIVE on_file(_, _)
on_file(pieces, file) ==
    IF pieces = <<>> THEN <<>>
    ELSE (IF Head(pieces).file = file THEN <<Head(pieces)>> ELSE <<>>)
             \o on_file(Tail(pieces), file)

\* Variant of tandem_pick below that takes the second piece of a file of
\* two for Middle.
tandem_pick_middle_of_two(file_pieces, parsed_move) ==
    IF Len(file_pieces) < 2 THEN <<>>
    ELSE IF parsed_move.is_front = "True" THEN <<file_pieces[1]>>
    ELSE IF parsed_move.is_front = "False" THEN <<file_pieces[Len(file_pieces)]>>
    ELSE IF parsed_move.is_middle = "True" THEN <<file_pieces[2]>>
    ELSE <<>>

\* Variant of tandem_pick below that takes the first piece of a file for
\* Back as for Front.
tandem_pick_first(file_pieces, parsed_move) ==
    IF Len(file_pieces) < 2 THEN <<>>
    ELSE IF parsed_move.is_front # "None" THEN <<file_pieces[1]>>
    ELSE IF parsed_move.is_middle = "True" /\ Len(file_pieces) >= 3
    THEN <<file_pieces[2]>>
    ELSE <<>>

\* What one file of pieces_by_file adds to result: file_pieces is the
\* file's list, sorted.
tandem_pick(file_pieces, parsed_move) ==
    IF Len(file_pieces) < 2 THEN <<>>
    ELSE IF parsed_move.is_front = "True" THEN <<file_pieces[1]>>
    ELSE IF parsed_move.is_front = "False" THEN <<file_pieces[Len(file_pieces)]>>
    ELSE IF parsed_move.is_middle = "True" /\ Len(file_pieces) >= 3
    THEN <<file_pieces[2]>>
    ELSE <<>>

RECURSIVE tandem_collect(_, _, _)
tandem_collect(pieces, files, parsed_move) ==
    IF files = <<>> THEN <<>>
    ELSE tandem_pick(sort_by_rank(on_file(pieces, Head(files)), <<>>,
                                  parsed_move.color = RED),
                     parsed_move)
             \o tandem_collect(pieces, Tail(files), parsed_move)

disambiguate_tandem_pieces(b, pieces, parsed_move) ==
    IF pieces = <<>> THEN pieces
    ELSE tandem_collect(pieces, files_in_order(pieces, <<>>), parsed_move)

\* The last loop of _find_move_candidates keeping only the targets the
\* piece's movement pattern allows on the board.
RECURSIVE candidates_of_unblocked(_, _, _)
candidates_of_unblocked(b, matching_pieces, parsed_move) ==
    IF matching_pieces = <<>> THEN <<>>
    ELSE LET from_pos == Head(matching_pieces)
             target_positions == calculate_target_positions(b, from_pos, parsed_move)
             kept == ordered({i \in 1..Len(target_positions) :
                                  is_piece_move_valid(b, get_piece(b, from_pos), from_pos,
                                                      target_positions[i]).ret})
         IN [k \in 1..Len(kept) |-> <<from_pos, target_positions[kept[k]]>>]
                \o candidates_of_unblocked(b, Tail(matching_pieces), parsed_move)

\* The last loop of _find_move_candidates: (from, to) for every target of
\* every remaining piece.
RECURSIVE candidates_of(_, _, _)
candidates_of(b, matching_pieces, parsed_move) ==
    IF matching_pieces = <<>> THEN <<>>
    ELSE LET from_pos == Head(matching_pieces)
             target_positions == calculate_target_positions(b, from_pos, parsed_move)
         IN [i \in 1..Len(target_positions) |-> <<from_pos, target_positions[i]>>]
                \o candidates_of(b, Tail(matching_pieces), parsed_move)

\* The first loop of _find_move_candidates: the squares, in scan order, that
\* hold a piece of the type and color.
pieces_scan(b, piece_type, color) ==
    LET found == ordered({i \in 1..90 : get_piece(b, ScanOrder[i]) = Piece(piece_type, color)})
    IN [k \in 1..Len(found) |-> ScanOrder[found[k]]]

find_move_candidates(b, parsed_move) ==
    LET all == pieces_scan(b, parsed_move.piece_type, parsed_move.color)
        board_file == convert_file_to_board_coordinate(parsed_move.source_file,
                                                       parsed_move.color)
        matching_pieces ==
            IF parsed_move.is_front # "None" \/ parsed_move.is_middle # "None"
            THEN disambiguate_tandem_pieces(b, all, parsed_move)
            ELSE IF parsed_move.source_file > 0
            THEN on_file(all, board_file)
            ELSE all
    IN candidates_of(b, matching_pieces, parsed_move)


\* One turn of the loop of translate_move: r is what is_valid_move answered
\* for candidate.
scan_step(st, r, candidate) ==
    [valid_moves |-> IF r.ret THEN Append(st.valid_moves, candidate) ELSE st.valid_moves,
     self |-> r.self]

\* Variant of the loop below that stops at the first candidate the
\* validator accepts.
RECURSIVE valid_moves_first(_, _, _)
valid_moves_first(st, move_candidates, i) ==
    IF i > Len(move_candidates) \/ st.valid_moves # <<>> THEN st
    ELSE valid_moves_first(scan_step(st,
                                     is_valid_move(st.self, move_candidates[i][1],
                                                   move_candidates[i][2]),
                                     move_candidates[i]),
                           move_candidates, i + 1)

\* The loop of translate_move over move_candidates: st = [valid_moves, self],
\* the board threaded through the validator's calls.
RECURSIVE valid_moves_scan(_, _, _)
valid_moves_scan(st, move_candidates, i) ==
    IF i > Len(move_candidates) THEN st
    ELSE valid_moves_scan(scan_step(st,
                                    is_valid_move(st.self, move_candidates[i][1],
                                                  move_candidates[i][2]),
                                    move_candidates[i]),
                          move_candidates, i + 1)

\* Variant of board_after_of below that counts a full move when the board
\* after the move has Black to move.
board_after_red(b, moved) ==
    LET flipped == [moved EXCEPT !.active_color = IF b.active_color = RED THEN BLACK ELSE RED]
        board_after == [flipped EXCEPT !.fullmove_number =
                                           @ + (IF flipped.active_color = BLACK THEN 1 ELSE 0)]
    IN [ret |-> board_after, self |-> b]

\* The block after new_board.move_piece: moved is new_board.
board_after_of(b, moved) ==
    LET b2 == seen_by(b, moved)
        flipped == [moved EXCEPT !.active_color = IF b2.active_color = RED THEN BLACK ELSE RED]
        b3 == seen_by(b2, flipped)
        board_after == [flipped EXCEPT !.fullmove_number =
                                           @ + (IF b3.active_color = BLACK THEN 1 ELSE 0)]
    IN [ret |-> board_after, self |-> seen_by(b3, board_after)]

\* The block with a move that leaves the piece on the source square too.
make_board_after_source_kept(b, from_pos, to_pos) ==
    board_after_of(b, move_piece_source_kept(copy(b), from_pos, to_pos).self)

\* The "if include_board_after" block of translate_move: [ret, self], ret
\* the board after the move, self the board argument as the block leaves it.
make_board_after(b, from_pos, to_pos) ==
    board_after_of(b, move_piece(copy(b), from_pos, to_pos).self)

\* The locals of translate_move when it returns before the candidates.
NoLocals == [parsed_move |-> <<>>, move_candidates |-> <<>>, valid_moves |-> <<>>]

\* board_after_move and the board argument where translate_move succeeds:
\* made is what the include_board_after block left.
translate_made(made) == [ret |-> <<made.ret>>, self |-> made.self]

\* The success return of translate_move; after is [ret, self], ret the
\* Optional board_after_move.
translate_success(iccs_move, after, locals_) ==
    [ret |-> TranslationResult(TRUE, <<iccs_move>>, <<>>, after.ret),
     self |-> after.self,
     locals |-> locals_]

\* translate_move after the loop over the candidates; scanned is what the
\* loop left.
translate_scanned(chinese_move, include_board_after, parsed_move, move_candidates, scanned) ==
    LET valid_moves == scanned.valid_moves
        from_pos == valid_moves[1][1]
        to_pos == valid_moves[1][2]
        b1 == scanned.self
        locals_ == [parsed_move |-> parsed_move, move_candidates |-> move_candidates,
                    valid_moves |-> valid_moves]
    IN IF valid_moves = <<>>
       THEN [ret |-> TranslationResult(FALSE, <<>>, <<MsgInvalid \o chinese_move>>, <<>>),
             self |-> b1, locals |-> locals_]
       ELSE IF Len(valid_moves) > 1
       THEN [ret |-> TranslationResult(FALSE, <<>>, <<MsgAmbiguous \o chinese_move>>, <<>>),
             self |-> b1, locals |-> locals_]
       ELSE translate_success(Position_str(from_pos) \o Position_str(to_pos),
                              IF include_board_after
                              THEN translate_made(make_board_after(b1, from_pos, to_pos))
                              ELSE [ret |-> <<>>, self |-> b1],
                              locals_)

\* translate_move once the candidates are found.
translate_candidates(b, chinese_move, include_board_after, parsed_move, move_candidates) ==
    IF move_candidates = <<>>
    THEN [ret |-> TranslationResult(FALSE, <<>>, <<MsgNotFound \o chinese_move>>, <<>>),
          self |-> b,
          locals |-> [NoLocals EXCEPT !.parsed_move = parsed_move]]
    ELSE translate_scanned(chinese_move, include_board_after, parsed_move, move_candidates,
                           valid_moves_scan([valid_moves |-> <<>>, self |-> b],
                                            move_candidates, 1))

\* translate_move once the notation is parsed; parsed is [raised, ret].
translate_parsed(b, chinese_move, include_board_after, parsed) ==
    IF parsed.raised # NoError
    THEN [ret |-> TranslationResult(FALSE, <<>>, <<MsgError \o <<parsed.raised>>>>, <<>>),
          self |-> b, locals |-> NoLocals]
    ELSE IF parsed.ret = <<>>
    THEN [ret |-> TranslationResult(FALSE, <<>>, <<MsgUnparsable \o chinese_move>>, <<>>),
          self |-> b, locals |-> NoLocals]
    ELSE translate_candidates(b, chinese_move, include_board_after, parsed.ret,
                              find_move_candidates(b, parsed.ret[1]))

\* Variant of translate_move below that reads the notation for the side
\* that is not to move.
translate_move_other_side(b, chinese_move, include_board_after) ==
    translate_parsed(b, chinese_move, include_board_after,
                     parse_move(chinese_move, IF b.active_color = RED THEN BLACK ELSE RED))

\* XiangqiTranslator.translate_move: [ret, self, locals].  ret is the
\* TranslationResult, self the board argument as the call leaves it, locals
\* the call's local variables as it returns.
translate_move(b, chinese_move, include_board_after) ==
    translate_parsed(b, chinese_move, include_board_after,
                     parse_move(chinese_move, b.active_color))

RECURSIVE translate_multiple_loop(_, _, _, _, _)
\* Variant of the step below that goes on to the next notation after a
\* failure, from the same board.
translate_multiple_step_unbroken(initial_board, current_board, chinese_moves, i, results, r) ==
    translate_multiple_loop(seen_by(initial_board, r.self),
                            IF r.ret.success /\ r.ret.board_after_move # <<>>
                            THEN r.ret.board_after_move[1]
                            ELSE seen_by(current_board, r.self),
                            chinese_moves, i + 1, Append(results, r.ret))

\* One turn of the loop of translate_multiple_moves: r is what translate_move
\* answered for chinese_moves[i] on current_board.  A board is true in
\* Python, so "result.board_after_move" asks whether it is set.
translate_multiple_step(initial_board, current_board, chinese_moves, i, results, r) ==
    IF r.ret.success /\ r.ret.board_after_move # <<>>
    THEN translate_multiple_loop(seen_by(initial_board, r.self),
                                 r.ret.board_after_move[1],
                                 chinese_moves, i + 1, Append(results, r.ret))
    ELSE [ret |-> Append(results, r.ret), self |-> seen_by(initial_board, r.self)]

\* The loop over chinese_moves, from the i-th on.
translate_multiple_loop(initial_board, current_board, chinese_moves, i, results) ==
    IF i > Len(chinese_moves) THEN [ret |-> results, self |-> initial_board]
    ELSE translate_multiple_step(initial_board, current_board, chinese_moves, i, results,
                                 translate_move(current_board, chinese_moves[i], TRUE))

\* XiangqiTranslator.translate_multiple_moves: [ret, self], ret the list of
\* results and self the initial board as the call leaves it.
translate_multiple_moves(initial_board, chinese_moves) ==
    translate_multiple_loop(initial_board, copy(initial_board), chinese_moves, 1, <<>>)

translate_chinese_move(b, chinese_move, include_board_after) ==
    translate_move(b, chinese_move, include_board_after)

\* Variant of translate_fen_parsed below that gives no message for a text
\* from_fen refuses.
translate_fen_parsed_silent(parsed, chinese_move, include_board_after) ==
    IF parsed.raised # NoError
    THEN TranslationResult(FALSE, <<>>, <<>>, <<>>)
    ELSE translate_chinese_move(parsed.ret, chinese_move, include_board_after).ret

\* translate_from_fen once from_fen has returned or raised.
translate_fen_parsed(parsed, chinese_move, include_board_after) ==
    IF parsed.raised # NoError
    THEN TranslationResult(FALSE, <<>>, <<MsgFen \o <<parsed.raised>>>>, <<>>)
    ELSE translate_chinese_move(parsed.ret, chinese_move, include_board_after).ret

\* translate_from_fen: the TranslationResult.
translate_from_fen(fen, chinese_move, include_board_after) ==
    translate_fen_parsed(from_fen(fen, 0), chinese_move, include_board_after)

\* The moves of the dict, as ICCS texts.
iccs_moves(legal_moves) ==
    [i \in 1..Len(legal_moves) |->
         Position_str(legal_moves[i][1]) \o Position_str(legal_moves[i][2])]

\* __init__.py get_legal_moves once from_fen has returned or raised.
api_legal_moves_parsed(parsed, color) ==
    IF parsed.raised # NoError
    THEN [success |-> FALSE, moves |-> <<>>,
          error_message |-> <<<<"Error getting legal moves: ", parsed.raised>>>>]
    ELSE [success |-> TRUE,
          moves |-> iccs_moves(get_legal_moves(parsed.ret,
                                               IF color = "" THEN parsed.ret.active_color
                                               ELSE IF color = "red" THEN RED ELSE BLACK).ret),
          error_message |-> <<>>]

\* __init__.py get_legal_moves(board_fen, color=None): the dict it returns;
\* color is "" for None.
api_get_legal_moves(board_fen, color) == api_legal_moves_parsed(from_fen(board_fen, 0), color)


---------------------------------------------------------------------------
(* The positions the translator and the validator are run on, as the       *)
(* board texts a caller hands to from_fen.                                 *)

\* rnbakabnr/9/1c5c1/p1p1p1p1p/9/9/P1P1P1P1P/1C5C1/9/RNBAKABNR w - - 0 1
\* the initial position (board.py, initial_position)
FenInitial == InitialFen

\* rnbakabnr/9/1c5c1/p1p1p1p1p/9/9/P1P1P1P1P/1C5C1/9/RNBAKABNR b - - 0 1
\* the initial position, Black to move
FenInitialBlack ==
    <<"r","n","b","a","k","a","b","n","r","/","9","/","1","c","5","c","1","/","p","1",
      "p","1","p","1","p","1","p","/","9","/","9","/","P","1","P","1","P","1","P","1",
      "P","/","1","C","5","C","1","/","9","/","R","N","B","A","K","A","B","N","R"," ",
      "b"," ","-"," ","-"," ","0"," ","1">>

\* rnbakabnr/9/1c5c1/p1p1p1p1p/9/7C1/P1P1P1P1P/1C5C1/9/RNBAKABNR w - - 0 1
\* two red cannons on the h file (test_ambiguity_detection)
FenTwoCannons ==
    <<"r","n","b","a","k","a","b","n","r","/","9","/","1","c","5","c","1","/","p","1",
      "p","1","p","1","p","1","p","/","9","/","7","C","1","/","P","1","P","1","P","1",
      "P","1","P","/","1","C","5","C","1","/","9","/","R","N","B","A","K","A","B","N",
      "R"," ","w"," ","-"," ","-"," ","0"," ","1">>

\* rnbakabnr/9/1c5c1/p1p1p1p1p/4P4/4P4/P1P1P1P1P/1C2P2C1/9/RNBAKABNR w - - 0 1
\* red pawns on e2, e3, e4 and e5 (test_three_pieces_same_file)
FenThreePawns ==
    <<"r","n","b","a","k","a","b","n","r","/","9","/","1","c","5","c","1","/","p","1",
      "p","1","p","1","p","1","p","/","4","P","4","/","4","P","4","/","P","1","P","1",
      "P","1","P","1","P","/","1","C","2","P","2","C","1","/","9","/","R","N","B","A",
      "K","A","B","N","R"," ","w"," ","-"," ","-"," ","0"," ","1">>

\* rnbakabnr/9/1c5c1/p1p1p1p1p/9/9/P1P1P1P1P/1C5C1/4N4/RNBAKA1NR w - - 0 1
\* a red horse on e1 (test_other_ambiguous_cases)
FenTwoHorses ==
    <<"r","n","b","a","k","a","b","n","r","/","9","/","1","c","5","c","1","/","p","1",
      "p","1","p","1","p","1","p","/","9","/","9","/","P","1","P","1","P","1","P","1",
      "P","/","1","C","5","C","1","/","4","N","4","/","R","N","B","A","K","A","1","N",
      "R"," ","w"," ","-"," ","-"," ","0"," ","1">>

\* 3k5/9/9/2P1P4/2P1P4/9/9/9/9/4K4 w - - 3 10
\* red pawn tandems on the c and e files
FenRedTandems ==
    <<"3","k","5","/","9","/","9","/","2","P","1","P","4","/","2","P","1","P","4","/",
      "9","/","9","/","9","/","9","/","4","K","4"," ","w"," ","-"," ","-"," ","3"," ",
      "1","0">>

\* 3k5/4c4/4c4/9/9/2p3p2/2p3p2/2p6/9/4K4 b - - 4 7
\* black tandems: cannons on e, pawns on c (three) and g
FenBlackTandems ==
    <<"3","k","5","/","4","c","4","/","4","c","4","/","9","/","9","/","2","p","3","p",
      "2","/","2","p","3","p","2","/","2","p","6","/","9","/","4","K","4"," ","b"," ",
      "-"," ","-"," ","4"," ","7">>

\* 3k5/9/9/9/4r4/9/9/4C4/9/4K4 w - - 0 1
\* the red cannon on e2 shields its King from the chariot on e5
FenPinned ==
    <<"3","k","5","/","9","/","9","/","9","/","4","r","4","/","9","/","9","/","4","C",
      "4","/","9","/","4","K","4"," ","w"," ","-"," ","-"," ","0"," ","1">>

\* 4k4/9/9/9/9/9/9/9/4R4/3K5 b - - 7 20
\* Black is in check from the chariot on e1
FenInCheck ==
    <<"4","k","4","/","9","/","9","/","9","/","9","/","9","/","9","/","9","/","4","R",
      "4","/","3","K","5"," ","b"," ","-"," ","-"," ","7"," ","2","0">>

\* 4k4/9/9/9/9/9/9/4R4/9/4K4 w - - 0 1
\* the chariot on e2 is the only piece between the Kings
FenBlocker ==
    <<"4","k","4","/","9","/","9","/","9","/","9","/","9","/","9","/","4","R","4","/",
      "9","/","4","K","4"," ","w"," ","-"," ","-"," ","0"," ","1">>

\* R3k4/1R7/9/9/9/9/9/9/9/3K5 b - - 0 1
\* Black is in check from the chariot on a9 and its King has no square
FenCheckmate ==
    <<"R","3","k","4","/","1","R","7","/","9","/","9","/","9","/","9","/","9","/","9",
      "/","9","/","3","K","5"," ","b"," ","-"," ","-"," ","0"," ","1">>

\* 4k4/R8/9/9/9/9/9/9/3R1R3/3K5 b - - 0 1
\* Black is not in check and its King has no square
FenStalemate ==
    <<"4","k","4","/","R","8","/","9","/","9","/","9","/","9","/","9","/","9","/",
      "3","R","1","R","3","/","3","K","5"," ","b"," ","-"," ","-"," ","0"," ","1">>

\* 9/9/9/9/9/9/9/4P4/4N4/9 w - - 0 1
\* a horse on e1 and a pawn on e2 (test_basic_horse_blocking)
FenHorseBlocked ==
    <<"9","/","9","/","9","/","9","/","9","/","9","/","9","/","4","P","4","/",
      "4","N","4","/","9"," ","w"," ","-"," ","-"," ","0"," ","1">>

\* 9/9/9/9/9/9/4P4/3PNP3/4P4/9 w - - 0 1
\* a horse on e2 with a pawn on each side (test_multiple_direction_blocking)
FenHorseSurrounded ==
    <<"9","/","9","/","9","/","9","/","9","/","9","/","4","P","4","/",
      "3","P","N","P","3","/","4","P","4","/","9"," ","w"," ","-"," ","-"," ","0"," ","1">>

\* 4r4/9/4p4/9/4P4/9/9/R1n1C4/9/9 w - - 0 1
\* a cannon on e2 with no, one and two pieces before the squares of its
\* file and rank (test_cannon_rules, with pieces added)
FenCannonScreens ==
    <<"4","r","4","/","9","/","4","p","4","/","9","/","4","P","4","/","9","/","9","/",
      "R","1","n","1","C","4","/","9","/","9"," ","w"," ","-"," ","-"," ","0"," ","1">>

\* 5k3/9/9/9/9/9/4P4/9/9/3K5 w - - 0 1
\* a Red pawn on e3, before the river, with the Kings on other files
FenRedPawn ==
    <<"5","k","3","/","9","/","9","/","9","/","9","/","9","/","4","P","4","/",
      "9","/","9","/","3","K","5"," ","w"," ","-"," ","-"," ","0"," ","1">>

\* 3k5/9/9/4p4/9/9/9/9/9/5K3 b - - 0 1
\* a Black pawn on e6, before the river, with the Kings on other files
FenBlackPawn ==
    <<"3","k","5","/","9","/","9","/","4","p","4","/","9","/","9","/","9","/",
      "9","/","9","/","5","K","3"," ","b"," ","-"," ","-"," ","0"," ","1">>

\* 5k3/9/9/9/9/9/9/6n2/9/3AK4 w - - 0 1
\* the horse on g2 guards e1 and f0, the Black King stands on the f file
FenHorseGuard ==
    <<"5","k","3","/","9","/","9","/","9","/","9","/","9","/","9","/",
      "6","n","2","/","9","/","3","A","K","4"," ","w"," ","-"," ","-"," ","0"," ","1">>

StartFens ==
    {FenInitial,
     FenInitialBlack,
     FenTwoCannons,
     FenThreePawns,
     FenTwoHorses,
     FenRedTandems,
     FenBlackTandems,
     FenPinned,
     FenInCheck,
     FenBlocker}

\* The caller's board is object 0.
StartBoards == {from_fen(fen, 0).ret : fen \in StartFens}

---------------------------------------------------------------------------
(* The board texts handed to from_fen, translate_from_fen and the package's *)
(* get_legal_moves: every prefix of the six fields, over board fields with *)
(* ten rank records and with another number of them, and clock fields that *)
(* int() reads and that it does not.                                       *)

\* n rank records "9", joined by "/".
EmptyRanks(n) == join(<<"/">>, [i \in 1..n |-> <<"9">>])

\* The first record holds ten pieces: set_piece is called for file 9.
OverfullRanks == <<"r","n","b","a","k","a","b","n","r","r","/">> \o EmptyRanks(9)

\* The far rank's four empty squares after the King are written "22".
SplitRunRanks ==
    <<"4","k","2","2","/">> \o EmptyRanks(8) \o <<"/","4","K","4">>

BoardFields ==
    {split_ws(FenInitial)[1], split_ws(FenInCheck)[1], EmptyRanks(10),
     EmptyRanks(9), EmptyRanks(11), OverfullRanks, SplitRunRanks,
     <<"i","n","v","a","l","i","d","_","f","e","n">>}

ActiveFields == {<<"w">>, <<"b">>}

HalfmoveFields == {<<"0">>, <<"+","3">>, <<"x">>}

FullmoveFields == {<<"1">>, <<"2","0">>, <<"1","a">>}

FenTexts ==
    {join(<<" ">>, SubSeq(<<bf, ac, <<"-">>, <<"-">>, hm, fm>>, 1, n)) :
         bf \in BoardFields, ac \in ActiveFields, hm \in HalfmoveFields,
         fm \in FullmoveFields, n \in 0..6}

\* The texts the translator's second entry point is run on.
SomeFenTexts ==
    {join(<<" ">>, SubSeq(<<bf, <<"w">>, <<"-">>, <<"-">>, hm, <<"1">>>>, 1, n)) :
         bf \in BoardFields, hm \in {<<"0">>, <<"x">>}, n \in {1, 3, 6}}

---------------------------------------------------------------------------
(* The notations handed to translate_move.                                 *)

RedPieceGlyphs == {"shuai", "shi_r", "xiang_r", "ma", "ju", "pao", "bing"}

ChineseNumerals == {NumberGlyphs[n][1] : n \in 1..9}

StandardNotations ==
    {<<p, s, m, t>> : p \in RedPieceGlyphs, s \in ChineseNumerals,
                      m \in {"jin", "tui", "ping"}, t \in ChineseNumerals}

TandemNotations ==
    {<<d, p, m, t>> : d \in DisambigGlyphs, p \in RedPieceGlyphs,
                      m \in {"jin", "tui", "ping"}, t \in ChineseNumerals}

\* The other glyphs of the parser's tables, text the patterns reject, text
\* with blanks around it or more text behind it, and an argument that is
\* no str.
OtherNotations ==
    {<<"zu", "qi", "jin", "yi">>, <<"jiang", "wu", "shang", "1">>,
     <<"pao_b", "F2", "heng", "5">>, <<"xiang_b", "3", "xia", "F5">>,
     <<"shi_b", "si", "jin", "wu">>, <<"hou", "zu", "shang", "F1">>,
     <<" ", "pao", "er", "ping", "wu", " ">>, <<"pao", "er", "ping", "wu", "x">>,
     <<"jiang", "shi", "jin", "shi">>, <<"x", "y", "z", "1", "2", "3">>,
     <<"ma">>, <<"ma", "ba", "jin">>, <<>>, <<"qian", "er", "ping", "wu">>,
     NotAStr}

Notations == StandardNotations \cup TandemNotations \cup OtherNotations

\* Opening moves of both sides, and one move no piece can make.
GameNotations ==
    {<<"pao", "er", "ping", "wu">>, <<"ma", "ba", "jin", "qi">>,
     <<"ma", "er", "jin", "san">>, <<"ju", "yi", "jin", "yi">>,
     <<"bing", "wu", "jin", "yi">>, <<"ju", "wu", "jin", "yi">>}

FenNotations == {<<"pao", "er", "ping", "wu">>, <<"ma", "ba", "jin", "qi">>, <<"ma">>, NotAStr}

---------------------------------------------------------------------------
(* The state: the caller's board, and the call the caller has made on it   *)
(* and not yet left behind: its name (op), its arguments with the board as *)
(* it was handed over (arg), what it returned (ret) and, for               *)
(* translate_move, its local variables (locals).  The caller is            *)
(* sequential: it makes a call when it holds no result (op = Idle).        *)

Idle == "idle"

\* The number of moves of the games followed.
MaxPly == 5

Init ==
    /\ board \in StartBoards
    /\ op = Idle
    /\ arg = [board |-> board]
    /\ ret = <<>>
    /\ locals = <<>>

\* A call on the caller's board answers r = [ret, self]: the caller holds
\* ret, and its board is as the call left it.
TranslateMove(chinese_move, include_board_after) ==
    /\ op = Idle
    /\ \E r \in {translate_move(board, chinese_move, include_board_after)} :
           /\ op' = "translate_move"
           /\ arg' = [board |-> board, chinese_move |-> chinese_move,
                      include_board_after |-> include_board_after]
           /\ ret' = r.ret
           /\ locals' = r.locals
           /\ board' = r.self

IsValidMove(from_pos, to_pos) ==
    /\ op = Idle
    /\ \E r \in {is_valid_move(board, from_pos, to_pos)} :
           /\ op' = "is_valid_move"
           /\ arg' = [board |-> board, from_pos |-> from_pos, to_pos |-> to_pos]
           /\ ret' = r.ret
           /\ locals' = <<>>
           /\ board' = r.self

IsInCheck(color) ==
    /\ op = Idle
    /\ \E r \in {is_in_check(board, color)} :
           /\ op' = "is_in_check"
           /\ arg' = [board |-> board, color |-> color]
           /\ ret' = r.ret
           /\ locals' = <<>>
           /\ board' = r.self

GetLegalMoves(color) ==
    /\ op = Idle
    /\ \E r \in {get_legal_moves(board, color)} :
           /\ op' = "get_legal_moves"
           /\ arg' = [board |-> board, color |-> color]
           /\ ret' = r.ret
           /\ locals' = <<>>
           /\ board' = r.self

IsCheckmate(color) ==
    /\ op = Idle
    /\ \E r \in {is_checkmate(board, color)} :
           /\ op' = "is_checkmate"
           /\ arg' = [board |-> board, color |-> color]
           /\ ret' = r.ret
           /\ locals' = <<>>
           /\ board' = r.self

IsStalemate(color) ==
    /\ op = Idle
    /\ \E r \in {is_stalemate(board, color)} :
           /\ op' = "is_stalemate"
           /\ arg' = [board |-> board, color |-> color]
           /\ ret' = r.ret
           /\ locals' = <<>>
           /\ board' = r.self

\* MoveValidator._is_piece_move_valid(piece, from_pos, to_pos), handed the
\* piece on from_pos as its callers do.
IsPieceMoveValid(from_pos, to_pos) ==
    /\ op = Idle
    /\ get_piece(board, from_pos) # None
    /\ \E r \in {is_piece_move_valid(board, get_piece(board, from_pos), from_pos, to_pos)} :
           /\ op' = "is_piece_move_valid"
           /\ arg' = [board |-> board, piece |-> get_piece(board, from_pos),
                      from_pos |-> from_pos, to_pos |-> to_pos]
           /\ ret' = r.ret
           /\ locals' = <<>>
           /\ board' = r.self

\* The caller makes the move it has found legal, on its own board:
\* board.move_piece(from_pos, to_pos); ret is the piece captured.
MovePiece ==
    /\ op = "is_valid_move"
    /\ ret = TRUE
    /\ \E r \in {move_piece(board, arg.from_pos, arg.to_pos)} :
           /\ op' = "move_piece"
           /\ arg' = [board |-> board, from_pos |-> arg.from_pos, to_pos |-> arg.to_pos]
           /\ ret' = r.ret
           /\ locals' = <<>>
           /\ board' = r.self

\* translate_from_fen(fen, chinese_move, include_board_after)
TranslateFromFen(fen, chinese_move, include_board_after) ==
    /\ op = Idle
    /\ op' = "translate_from_fen"
    /\ arg' = [fen |-> fen, chinese_move |-> chinese_move,
               include_board_after |-> include_board_after]
    /\ ret' = translate_from_fen(fen, chinese_move, include_board_after)
    /\ locals' = <<>>
    /\ UNCHANGED board

\* XiangqiBoard.from_fen(fen): ret is [raised, ret].
FromFen(fen) ==
    /\ op = Idle
    /\ op' = "from_fen"
    /\ arg' = [fen |-> fen]
    /\ ret' = from_fen(fen, 0)
    /\ locals' = <<>>
    /\ UNCHANGED board

\* The package's get_legal_moves(board_fen, color).
ApiGetLegalMoves(board_fen, color) ==
    /\ op = Idle
    /\ op' = "api_get_legal_moves"
    /\ arg' = [fen |-> board_fen, color |-> color]
    /\ ret' = api_get_legal_moves(board_fen, color)
    /\ locals' = <<>>
    /\ UNCHANGED board

\* The caller drops the result and keeps its board.
Return ==
    /\ op # Idle
    /\ op' = Idle
    /\ arg' = [board |-> board]
    /\ ret' = <<>>
    /\ locals' = <<>>
    /\ UNCHANGED board

\* The caller goes on with board_after_move of a successful translation
\* (the loop of translate_multiple_moves), MaxPly moves at most.
FeedBoardAfter ==
    /\ op = "translate_move"
    /\ ret.success
    /\ ret.board_after_move # <<>>
    /\ board.id < MaxPly
    /\ op' = "feed"
    /\ arg' = [board |-> board]
    /\ board' = ret.board_after_move[1]
    /\ UNCHANGED <<ret, locals>>

\* The game goes on from the board fed.
Continue ==
    /\ op = "feed"
    /\ op' = Idle
    /\ arg' = [board |-> board]
    /\ ret' = <<>>
    /\ locals' = <<>>
    /\ UNCHANGED board

\* The translator's two entry points, on the start positions.
Next ==
    \/ \E chinese_move \in Notations, include_board_after \in BOOLEAN :
           TranslateMove(chinese_move, include_board_after)
    \/ \E fen \in SomeFenTexts, chinese_move \in FenNotations,
           include_board_after \in BOOLEAN :
           TranslateFromFen(fen, chinese_move, include_board_after)
    \/ Return

Spec == Init /\ [][Next]_vars

\* The validator on the start positions.
NextValidator ==
    \/ \E from_pos \in Squares, to_pos \in Squares : IsValidMove(from_pos, to_pos)
    \/ \E color \in Colors : IsInCheck(color)
    \/ \E color \in Colors : GetLegalMoves(color)
    \/ \E color \in Colors : IsCheckmate(color)
    \/ \E color \in Colors : IsStalemate(color)
    \/ Return

\* The validator is also run where a side has no legal move.
InitValidator ==
    /\ board \in StartBoards \cup {from_fen(fen, 0).ret : fen \in {FenCheckmate, FenStalemate}}
    /\ op = Idle
    /\ arg = [board |-> board]
    /\ ret = <<>>
    /\ locals = <<>>

SpecValidator == InitValidator /\ [][NextValidator]_vars

\* Every call that is handed the caller's board.
NextFrame ==
    \/ \E chinese_move \in Notations, include_board_after \in BOOLEAN :
           TranslateMove(chinese_move, include_board_after)
    \/ \E from_pos \in Squares, to_pos \in Squares : IsValidMove(from_pos, to_pos)
    \/ \E color \in Colors : IsInCheck(color)
    \/ \E color \in Colors : GetLegalMoves(color)
    \/ \E color \in Colors : IsCheckmate(color)
    \/ \E color \in Colors : IsStalemate(color)
    \/ Return

\* The calls are followed from the positions with a tandem, with Black to
\* move, with a shielding piece, with a check and with the Kings on one file.
InitFrame ==
    /\ Init
    /\ board \in {from_fen(fen, 0).ret :
                      fen \in {FenTwoCannons, FenBlackTandems, FenPinned, FenInCheck,
                                FenBlocker}}

SpecFrame == InitFrame /\ [][NextFrame]_vars

\* The squares that hold a piece.
Occupied(b) == {pos \in Squares : get_piece(b, pos) # None}

\* The movement patterns and the validator, on every move of every piece of
\* positions that hold each kind of piece before and beyond the river, with
\* and without pieces in its way.
PatternFens ==
    {FenInitial, FenHorseBlocked, FenHorseSurrounded, FenTwoHorses, FenCannonScreens,
     FenRedTandems, FenBlackTandems, FenInCheck, FenBlocker, FenPinned}

InitPattern ==
    /\ board \in {from_fen(fen, 0).ret : fen \in PatternFens}
    /\ op = Idle
    /\ arg = [board |-> board]
    /\ ret = <<>>
    /\ locals = <<>>

NextPattern ==
    \/ \E from_pos \in Occupied(board), to_pos \in Squares :
           IsPieceMoveValid(from_pos, to_pos)
    \/ \E from_pos \in Occupied(board), to_pos \in Squares :
           IsValidMove(from_pos, to_pos)
    \/ Return

SpecPattern == InitPattern /\ [][NextPattern]_vars

\* The moves of a pawn, one legal move after the other, from a square
\* before the river.
InitPawn ==
    /\ board \in {from_fen(fen, 0).ret : fen \in {FenRedPawn, FenBlackPawn}}
    /\ op = Idle
    /\ arg = [board |-> board]
    /\ ret = <<>>
    /\ locals = <<>>

NextPawn ==
    \/ \E from_pos \in Occupied(board), to_pos \in Squares :
           IsPieceMoveValid(from_pos, to_pos)
    \/ \E from_pos \in Occupied(board), to_pos \in Squares :
           IsValidMove(from_pos, to_pos)
    \/ /\ op = "is_valid_move"
       /\ get_piece(board, arg.from_pos).piece_type = PAWN
       /\ MovePiece
    \/ Return

SpecPawn == InitPawn /\ [][NextPawn]_vars

\* Calls running at once on one board.  Each thread makes its calls one
\* after the other; a call is followed step by step, a step of a thread
\* running between any two steps of the other.  board is the shared board,
\* arg.board what it was before the first call, locals[t] the local
\* variables of the call of thread t and ret[t] what it returned.  A call
\* tries the pairs of its queue in turn (its one pair, the pairs of the loops
\* of get_legal_moves, the candidates of translate_move); for a pair that
\* passes the pattern test _would_move_expose_king copies the board, moves
\* the piece on temp_board and scans temp_board.
\* The number of threads.
MaxThreads == 2

Threads == 1..MaxThreads

ThreadFens == {FenHorseGuard, FenPinned}

\* A King's move onto the other King's file and one onto a guarded square,
\* an Advisor's move, a Horse's move to a guarded square, a Black King's
\* move onto the other King's file, and a shielding Cannon's move off its
\* King's file.
ThreadMoves ==
    {<<Position(4, 0), Position(5, 0)>>, <<Position(4, 0), Position(4, 1)>>,
     <<Position(3, 0), Position(4, 1)>>, <<Position(6, 2), Position(4, 1)>>,
     <<Position(5, 9), Position(4, 9)>>, <<Position(4, 2), Position(3, 2)>>}

\* An Advisor's move, a King's move to a guarded square, a King's move onto
\* the other King's file, and a move of a piece the board does not hold.
ThreadNotations ==
    {<<"shi_r", "liu", "jin", "wu">>, <<"shuai", "wu", "jin", "yi">>,
     <<"shuai", "wu", "ping", "si">>, <<"ju", "yi", "jin", "yi">>}

ThreadLocals(pc, call, args, queue, cursor, valid_moves, temp_board, moving_piece) ==
    [pc |-> pc, call |-> call, args |-> args, queue |-> queue, cursor |-> cursor,
     valid_moves |-> valid_moves, temp_board |-> temp_board, moving_piece |-> moving_piece]

ThreadIdle == ThreadLocals("idle", "", <<>>, <<>>, 1, <<>>, <<>>, None)

InitThreads ==
    /\ board \in {from_fen(fen, 0).ret : fen \in ThreadFens}
    /\ op = "threads"
    /\ arg = [board |-> board]
    /\ ret = [t \in Threads |-> <<>>]
    /\ locals = [t \in Threads |-> ThreadIdle]

\* Thread t calls is_valid_move(from_pos, to_pos) of a validator on the board.
ThreadIsValidMove(t, from_pos, to_pos) ==
    /\ locals[t].pc = "idle"
    /\ locals' = [locals EXCEPT ![t] =
                      ThreadLocals("next", "is_valid_move",
                                   [from_pos |-> from_pos, to_pos |-> to_pos],
                                   <<<<from_pos, to_pos>>>>, 1, <<>>, <<>>, None)]
    /\ UNCHANGED <<board, op, arg, ret>>

\* Thread t calls get_legal_moves(color) of a validator on the board.
ThreadGetLegalMoves(t, color) ==
    /\ locals[t].pc = "idle"
    /\ locals' = [locals EXCEPT ![t] =
                      ThreadLocals("next", "get_legal_moves", [color |-> color],
                                   pairs_tried(board, color), 1, <<>>, <<>>, None)]
    /\ UNCHANGED <<board, op, arg, ret>>

\* Thread t calls translate_move(board, chinese_move, True): the notation is
\* parsed and the candidates are found; without candidates the call returns.
ThreadTranslateMove(t, chinese_move) ==
    /\ locals[t].pc = "idle"
    /\ \E parsed \in {parse_move(chinese_move, board.active_color)} :
           IF parsed.raised # NoError \/ parsed.ret = <<>>
              \/ find_move_candidates(board, parsed.ret[1]) = <<>>
           THEN /\ locals' = [locals EXCEPT ![t] =
                                  ThreadLocals("done", "translate_move",
                                               [chinese_move |-> chinese_move],
                                               <<>>, 1, <<>>, <<>>, None)]
                /\ ret' = [ret EXCEPT ![t] =
                               <<translate_parsed(board, chinese_move, TRUE, parsed).ret>>]
           ELSE /\ locals' = [locals EXCEPT ![t] =
                                  ThreadLocals("next", "translate_move",
                                               [chinese_move |-> chinese_move,
                                                parsed_move |-> parsed.ret],
                                               find_move_candidates(board, parsed.ret[1]),
                                               1, <<>>, <<>>, None)]
                /\ UNCHANGED ret
    /\ UNCHANGED <<board, op, arg>>

\* is_valid_move up to the pattern test, for the pairs from the cursor to the
\* first that passes it.
ThreadPattern(t) ==
    /\ locals[t].pc = "next"
    /\ \E r \in {pattern_pass(board, locals[t].queue, locals[t].cursor)} :
           /\ locals' = [locals EXCEPT ![t].cursor = r.index,
                                       ![t].pc = IF r.index > Len(locals[t].queue)
                                                 THEN "finish" ELSE "copy"]
           /\ board' = r.self
    /\ UNCHANGED <<op, arg, ret>>

\* _would_move_expose_king: temp_board = self.board.copy();
\* moving_piece = temp_board.get_piece(from_pos)
ThreadCopy(t) ==
    /\ locals[t].pc = "copy"
    /\ \E temp_board \in {copy(board)} :
           locals' = [locals EXCEPT
                          ![t].temp_board = <<temp_board>>,
                          ![t].moving_piece =
                              get_piece(temp_board, locals[t].queue[locals[t].cursor][1]),
                          ![t].pc = "move"]
    /\ UNCHANGED <<board, op, arg, ret>>

\* temp_board.move_piece(from_pos, to_pos)
ThreadMovePiece(t) ==
    /\ locals[t].pc = "move"
    /\ \E r \in {move_piece(locals[t].temp_board[1], locals[t].queue[locals[t].cursor][1],
                            locals[t].queue[locals[t].cursor][2])} :
           /\ locals' = [locals EXCEPT ![t].temp_board = <<r.self>>, ![t].pc = "scan"]
           /\ board' = seen_by(board, r.self)
    /\ UNCHANGED <<op, arg, ret>>

\* The scans of temp_board for the King and the pieces that reach it; a pair
\* that leaves the King safe is kept and the call goes on with the next.
ThreadScan(t) ==
    /\ locals[t].pc = "scan"
    /\ \E r \in {king_exposed_on(board, seen_by(locals[t].temp_board[1], board),
                                 locals[t].moving_piece.color)} :
           /\ locals' = [locals EXCEPT
                             ![t].valid_moves =
                                 IF r.ret THEN @
                                 ELSE Append(@, locals[t].queue[locals[t].cursor]),
                             ![t].cursor = @ + 1,
                             ![t].temp_board = <<>>,
                             ![t].moving_piece = None,
                             ![t].pc = "next"]
           /\ board' = r.self
    /\ UNCHANGED <<op, arg, ret>>

\* What the call of a thread returns once its pairs are tried; scanned is
\* what the loop left.
thread_result(call, args, queue, scanned) ==
    CASE call = "is_valid_move" ->
             [ret |-> scanned.valid_moves # <<>>, self |-> scanned.self]
      [] call = "get_legal_moves" ->
             [ret |-> scanned.valid_moves, self |-> scanned.self]
      [] call = "translate_move" ->
             translate_scanned(args.chinese_move, TRUE, args.parsed_move, queue, scanned)

\* The call of thread t returns.
ThreadFinish(t) ==
    /\ locals[t].pc = "finish"
    /\ \E r \in {thread_result(locals[t].call, locals[t].args, locals[t].queue,
                               [valid_moves |-> locals[t].valid_moves, self |-> board])} :
           /\ ret' = [ret EXCEPT ![t] = <<r.ret>>]
           /\ board' = r.self
    /\ locals' = [locals EXCEPT ![t].pc = "done"]
    /\ UNCHANGED <<op, arg>>

\* Thread t drops the result and is free for its next call.
ThreadReturn(t) ==
    /\ locals[t].pc = "done"
    /\ locals' = [locals EXCEPT ![t] = ThreadIdle]
    /\ ret' = [ret EXCEPT ![t] = <<>>]
    /\ UNCHANGED <<board, op, arg>>

NextThreads ==
    \E t \in Threads :
        \/ \E move \in ThreadMoves : ThreadIsValidMove(t, move[1], move[2])
        \/ \E color \in Colors : ThreadGetLegalMoves(t, color)
        \/ \E chinese_move \in ThreadNotations : ThreadTranslateMove(t, chinese_move)
        \/ ThreadPattern(t)
        \/ ThreadCopy(t)
        \/ ThreadMovePiece(t)
        \/ ThreadScan(t)
        \/ ThreadFinish(t)
        \/ ThreadReturn(t)

SpecThreads == InitThreads /\ [][NextThreads]_vars

\* A game from the initial position, each move translated from the board
\* the move before it left.
InitGame ==
    /\ Init
    /\ board = initial_position(0)

NextGame ==
    \/ \E chinese_move \in GameNotations : TranslateMove(chinese_move, TRUE)
    \/ FeedBoardAfter
    \/ Continue
    \/ Return

SpecGame == InitGame /\ [][NextGame]_vars

\* The entry points that take a board text.
InitFen ==
    /\ Init
    /\ board = initial_position(0)

NextFen ==
    \/ \E fen \in FenTexts : FromFen(fen)
    \/ \E fen \in FenTexts, chinese_move \in FenNotations,
           include_board_after \in BOOLEAN :
           TranslateFromFen(fen, chinese_move, include_board_after)
    \/ \E fen \in FenTexts, color \in {"", "red", "black"} : ApiGetLegalMoves(fen, color)
    \/ Return

SpecFen == InitFen /\ [][NextFen]_vars

\* A caller that copies its board and then writes to one of the two boards.
\* The squares and the pieces it writes.
CopyFens == {FenInitial, FenRedTandems, FenBlackTandems}

CopySquares == {Position(4, 0), Position(4, 4)}

CopyPieces == {None, Piece(CHARIOT, RED)}

InitCopy ==
    /\ board \in {from_fen(fen, 0).ret : fen \in CopyFens} \cup {XiangqiBoard(0)}
    /\ op = Idle
    /\ arg = [board |-> board]
    /\ ret = <<>>
    /\ locals = <<>>

\* board_copy = board.copy()
Copy ==
    /\ op = Idle
    /\ \E c \in {copy(board)} :
           /\ op' = "copy"
           /\ arg' = [board |-> board]
           /\ ret' = c
           /\ locals' = [board_copy |-> c]
           /\ UNCHANGED board

\* The object named by `on`: the caller's board or its copy.
board_named(on) == IF on = "board" THEN board ELSE locals.board_copy

\* <on>.set_piece(pos, piece); arg keeps both boards as they were before.
SetPieceOn(on, pos, piece) ==
    /\ op \in {"copy", "set_piece_on", "move_piece_on"}
    /\ \E written \in {set_piece(board_named(on), pos, piece)} :
           /\ op' = "set_piece_on"
           /\ arg' = [board |-> board, board_copy |-> locals.board_copy, on |-> on]
           /\ ret' = None
           /\ locals' = [board_copy |-> seen_by(locals.board_copy, written)]
           /\ board' = seen_by(board, written)

\* <on>.move_piece(from_pos, to_pos); arg keeps both boards as they were before.
MovePieceOn(on, from_pos, to_pos) ==
    /\ op \in {"copy", "set_piece_on", "move_piece_on"}
    /\ \E r \in {move_piece(board_named(on), from_pos, to_pos)} :
           /\ op' = "move_piece_on"
           /\ arg' = [board |-> board, board_copy |-> locals.board_copy, on |-> on]
           /\ ret' = r.ret
           /\ locals' = [board_copy |-> seen_by(locals.board_copy, r.self)]
           /\ board' = seen_by(board, r.self)

NextCopy ==
    \/ Copy
    \/ \E on \in {"board", "board_copy"}, pos \in CopySquares, piece \in CopyPieces :
           SetPieceOn(on, pos, piece)
    \/ \E on \in {"board", "board_copy"}, from_pos \in CopySquares, to_pos \in CopySquares :
           MovePieceOn(on, from_pos, to_pos)
    \/ Return

SpecCopy == InitCopy /\ [][NextCopy]_vars

---------------------------------------------------------------------------
(* The square-by-square walks of _is_path_clear and _count_pieces_between, *)
(* one square at a step.  A walk is [kind, board, from_pos, to_pos]: kind  *)
(* names the method, board is the board it reads.                          *)

a_walk(kind, b, from_pos, to_pos) ==
    [kind |-> kind, board |-> b, from_pos |-> from_pos, to_pos |-> to_pos]

\* The walk _would_kings_face_each_other starts on temp_board.
walks_of_kings(temp_board) ==
    LET red == {pos \in Squares : get_piece(temp_board, pos) = Piece(KING, RED)}
        black == {pos \in Squares : get_piece(temp_board, pos) = Piece(KING, BLACK)}
        last(S) == CHOOSE pos \in S : \A q \in S :
                       q.rank < pos.rank \/ (q.rank = pos.rank /\ q.file <= pos.file)
    IN IF red = {} \/ black = {} THEN {}
       ELSE IF last(red).file # last(black).file THEN {}
       ELSE {a_walk("is_path_clear", temp_board, last(red), last(black))}

\* The walks of the Chariot's and the Cannon's rule on any line: the test
\* for a straight line left out.
walks_of_piece_any_line(b, piece, from_pos, to_pos) ==
    CASE piece.piece_type = KING ->
             IF is_king_move_valid_facing_unchecked(b, piece, from_pos, to_pos).ret
             THEN walks_of_kings(move_piece(copy(b), from_pos, to_pos).self)
             ELSE {}
      [] piece.piece_type = CHARIOT -> {a_walk("is_path_clear", b, from_pos, to_pos)}
      [] piece.piece_type = CANNON ->
             IF get_piece(b, to_pos) = None
             THEN {a_walk("is_path_clear", b, from_pos, to_pos)}
             ELSE {a_walk("count_pieces_between", b, from_pos, to_pos)}
      [] OTHER -> {}

\* The walks started by _is_piece_move_valid(piece, from_pos, to_pos) of a
\* validator on b: by the King's rule once the palace and the step are
\* right, by the Chariot's and the Cannon's rule once the line is straight.
walks_of_piece(b, piece, from_pos, to_pos) ==
    CASE piece.piece_type = KING ->
             IF is_king_move_valid_facing_unchecked(b, piece, from_pos, to_pos).ret
             THEN walks_of_kings(move_piece(copy(b), from_pos, to_pos).self)
             ELSE {}
      [] piece.piece_type = CHARIOT ->
             IF from_pos.file # to_pos.file /\ from_pos.rank # to_pos.rank THEN {}
             ELSE {a_walk("is_path_clear", b, from_pos, to_pos)}
      [] piece.piece_type = CANNON ->
             IF from_pos.file # to_pos.file /\ from_pos.rank # to_pos.rank THEN {}
             ELSE IF get_piece(b, to_pos) = None
             THEN {a_walk("is_path_clear", b, from_pos, to_pos)}
             ELSE {a_walk("count_pieces_between", b, from_pos, to_pos)}
      [] OTHER -> {}

\* The walks of the loop over the enemy pieces: those of the calls made, up
\* to the first that answers True.
walks_of_attack(b, enemy_color, king_pos) ==
    LET enemies == pieces_of(b, enemy_color)
        hits == {i \in enemies : is_piece_move_valid(b, get_piece(b, ScanOrder[i]),
                                                     ScanOrder[i], king_pos).ret}
        made == IF hits = {} THEN enemies ELSE {i \in enemies : i <= min_of(hits)}
    IN UNION {walks_of_piece(b, get_piece(b, ScanOrder[i]), ScanOrder[i], king_pos) :
                  i \in made}

\* The walks of _would_move_expose_king, on temp_board after the move.
walks_of_exposure(temp_board, color) ==
    LET king == find_king(temp_board, color)
        enemy_color == IF color = RED THEN BLACK ELSE RED
    IN IF ~king.found THEN {} ELSE walks_of_attack(temp_board, enemy_color, king.pos)

\* The walks of is_valid_move(from_pos, to_pos) of a validator on b.
walks_of_valid_move(b, from_pos, to_pos) ==
    LET piece == get_piece(b, from_pos)
        target_piece == get_piece(b, to_pos)
    IN IF ~is_position_valid(from_pos) \/ ~is_position_valid(to_pos) THEN {}
       ELSE IF piece = None THEN {}
       ELSE IF target_piece # None /\ target_piece.color = piece.color THEN {}
       ELSE IF ~is_piece_move_valid(b, piece, from_pos, to_pos).ret
       THEN walks_of_piece(b, piece, from_pos, to_pos)
       ELSE walks_of_piece(b, piece, from_pos, to_pos)
                \cup walks_of_exposure(move_piece(copy(b), from_pos, to_pos).self,
                                       piece.color)

\* The walks of is_in_check(color).
walks_of_in_check(b, color) ==
    LET king == find_king(b, color)
        enemy_color == IF color = RED THEN BLACK ELSE RED
    IN IF ~king.found THEN {} ELSE walks_of_attack(b, enemy_color, king.pos)

\* The walks of get_legal_moves(color): is_valid_move from every piece of
\* the color to every square.
walks_of_legal_moves(b, color) ==
    UNION {walks_of_valid_move(b, ScanOrder[i], to_pos) :
               i \in pieces_of(b, color), to_pos \in Squares}

\* The walks of translate_move: is_valid_move for every candidate.
walks_of_translate_move(b, chinese_move) ==
    LET parsed == parse_move(chinese_move, b.active_color)
        move_candidates == find_move_candidates(b, parsed.ret[1])
    IN IF parsed.raised # NoError \/ parsed.ret = <<>> THEN {}
       ELSE UNION {walks_of_valid_move(b, move_candidates[i][1], move_candidates[i][2]) :
                       i \in DOMAIN move_candidates}

\* list[n] of Python on a list of the given length: n counts from the end
\* when negative, and IndexError is raised outside -length..length-1.
py_index(n, length) ==
    IF n >= length \/ n < 0 - length THEN [raised |-> IndexError, ret |-> 0]
    ELSE [raised |-> NoError, ret |-> IF n < 0 THEN n + length ELSE n]

\* self.board.get_piece(Position(current_file, current_rank)): [raised, ret]
get_piece_at(b, current_file, current_rank) ==
    LET rank == py_index(current_rank, 10)
        file == py_index(current_file, 9)
    IN IF rank.raised # NoError THEN [raised |-> rank.raised, ret |-> None]
       ELSE IF file.raised # NoError THEN [raised |-> file.raised, ret |-> None]
       ELSE [raised |-> NoError, ret |-> get_piece(b, Position(file.ret, rank.ret))]

WalkFens == {FenInitial, FenBlocker, FenPinned, FenTwoCannons}

WalkNotations == {<<"ju", "jiu", "jin", "yi">>, <<"pao", "er", "ping", "wu">>,
                  <<"shuai", "wu", "jin", "yi">>}

InitWalk ==
    /\ board \in {from_fen(fen, 0).ret : fen \in WalkFens}
    /\ op = Idle
    /\ arg = [board |-> board]
    /\ ret = <<>>
    /\ locals = <<>>

\* A walk of the call begins: file_step, rank_step, count, current_file and
\* current_rank are set.
StartWalk(call, w) ==
    /\ op = Idle
    /\ op' = "walk"
    /\ arg' = [board |-> board, call |-> call, walk |-> w]
    /\ ret' = <<>>
    /\ locals' = [file_step |-> sign_step(w.from_pos.file, w.to_pos.file),
                  rank_step |-> sign_step(w.from_pos.rank, w.to_pos.rank),
                  count |-> 0,
                  current_file |-> w.from_pos.file
                                       + sign_step(w.from_pos.file, w.to_pos.file),
                  current_rank |-> w.from_pos.rank
                                       + sign_step(w.from_pos.rank, w.to_pos.rank)]
    /\ UNCHANGED board

WalkIsValidMove(from_pos, to_pos) ==
    /\ op = Idle
    /\ \E w \in walks_of_valid_move(board, from_pos, to_pos) : StartWalk("is_valid_move", w)

WalkIsInCheck(color) ==
    /\ op = Idle
    /\ \E w \in walks_of_in_check(board, color) : StartWalk("is_in_check", w)

WalkGetLegalMoves(color) ==
    /\ op = Idle
    /\ \E w \in walks_of_legal_moves(board, color) : StartWalk("get_legal_moves", w)

WalkTranslateMove(chinese_move) ==
    /\ op = Idle
    /\ \E w \in walks_of_translate_move(board, chinese_move) : StartWalk("translate_move", w)

\* One turn of the while loop: the square is read, then the step is taken.
\* _is_path_clear returns at the first piece it reads.
WalkStep ==
    /\ op = "walk"
    /\ locals.current_file # arg.walk.to_pos.file
           \/ locals.current_rank # arg.walk.to_pos.rank
    /\ \E r \in {get_piece_at(arg.walk.board, locals.current_file, locals.current_rank)} :
           IF r.raised # NoError
           THEN /\ op' = "raised"
                /\ ret' = <<r.raised>>
                /\ UNCHANGED locals
           ELSE IF r.ret # None /\ arg.walk.kind = "is_path_clear"
           THEN /\ op' = "walked"
                /\ ret' = <<FALSE>>
                /\ UNCHANGED locals
           ELSE /\ op' = "walk"
                /\ ret' = <<>>
                /\ locals' = [locals EXCEPT
                                  !.count = IF r.ret # None THEN @ + 1 ELSE @,
                                  !.current_file = @ + locals.file_step,
                                  !.current_rank = @ + locals.rank_step]
    /\ UNCHANGED <<board, arg>>

\* The loop ends at to_pos: "return True", "return count".  ret is <<>>
\* until the walk returns, and then the one value returned.
WalkEnd ==
    /\ op = "walk"
    /\ locals.current_file = arg.walk.to_pos.file
    /\ locals.current_rank = arg.walk.to_pos.rank
    /\ op' = "walked"
    /\ ret' = IF arg.walk.kind = "is_path_clear" THEN <<TRUE>> ELSE <<locals.count>>
    /\ UNCHANGED <<board, arg, locals>>

NextWalk ==
    \/ \E from_pos \in Occupied(board), to_pos \in Squares : WalkIsValidMove(from_pos, to_pos)
    \/ \E color \in Colors : WalkIsInCheck(color)
    \/ \E color \in Colors : WalkGetLegalMoves(color)
    \/ \E chinese_move \in WalkNotations : WalkTranslateMove(chinese_move)
    \/ WalkStep
    \/ WalkEnd
    \/ (op \in {"walked", "raised"} /\ Return)

\* A walk under way takes its next step.
SpecWalk == InitWalk /\ [][NextWalk]_vars /\ WF_vars(WalkStep) /\ WF_vars(WalkEnd)

\* A game from the initial position in which Red takes a Horse or, once an
\* Elephant has stepped before the black King, gives check with a Cannon;
\* Black answers the check, takes back, or moves a Chariot.
KingNotations ==
    {<<"pao", "er", "ping", "wu">>, <<"pao", "wu", "jin", "si">>,
     <<"pao", "wu", "jin", "san">>, <<"pao", "er", "jin", "qi">>,
     <<"xiang_b", "san", "jin", "wu">>, <<"shi_b", "si", "jin", "wu">>,
     <<"ju", "yi", "jin", "yi">>, <<"ju", "jiu", "ping", "ba">>}

NextKings ==
    \/ \E chinese_move \in KingNotations : TranslateMove(chinese_move, TRUE)
    \/ FeedBoardAfter
    \/ Continue
    \/ Return

SpecKings == InitGame /\ [][NextKings]_vars

\* The longest list of notations handed to translate_multiple_moves.
MaxMoves == 3

\* The lists of MaxMoves game notations at most.
MoveLists == UNION {[1..n -> GameNotations] : n \in 0..MaxMoves}

\* translate_multiple_moves(board, chinese_moves)
TranslateMultipleMoves(chinese_moves) ==
    /\ op = Idle
    /\ \E r \in {translate_multiple_moves(board, chinese_moves)} :
           /\ op' = "translate_multiple_moves"
           /\ arg' = [board |-> board, chinese_moves |-> chinese_moves]
           /\ ret' = r.ret
           /\ locals' = <<>>
           /\ board' = r.self

InitMultiple ==
    /\ Init
    /\ board \in {from_fen(fen, 0).ret : fen \in {FenInitial, FenInitialBlack}}

NextMultiple ==
    \/ \E chinese_moves \in MoveLists : TranslateMultipleMoves(chinese_moves)
    \/ Return

SpecMultiple == InitMultiple /\ [][NextMultiple]_vars

---------------------------------------------------------------------------
(* Moves of the Kings, Advisors and Elephants from the initial position,   *)
(* each made once is_valid_move has accepted it.                           *)

\* The most Kings, Advisors and Elephants away from their squares of the
\* initial position at a time.
MaxDisplaced == 1

\* The Kings, Advisors and Elephants of the position start that are no
\* longer on their squares in b.
displaced_from(start, b) ==
    Cardinality({pos \in Squares :
                     /\ get_piece(start, pos).piece_type \in {KING, ADVISOR, ELEPHANT}
                     /\ get_piece(b, pos) # get_piece(start, pos)})

\* No more than MaxDisplaced of them are away from their first squares.
WithinDisplaced(b) == \E start \in {initial_position(0)} : displaced_from(start, b) <= MaxDisplaced

\* The squares that hold a King, an Advisor or an Elephant.
Guards(b) == {pos \in Squares : get_piece(b, pos).piece_type \in {KING, ADVISOR, ELEPHANT}}

InitPalace ==
    /\ Init
    /\ board = initial_position(0)

NextPalace ==
    \/ \E from_pos \in Guards(board), to_pos \in Squares : IsValidMove(from_pos, to_pos)
    \/ /\ op = "is_valid_move"
       /\ WithinDisplaced(move_piece(board, arg.from_pos, arg.to_pos).self)
       /\ MovePiece
    \/ Return

SpecPalace == InitPalace /\ [][NextPalace]_vars

---------------------------------------------------------------------------
(* Properties.                                                             *)

Range(seq) == {seq[i] : i \in DOMAIN seq}

iccs(from_pos, to_pos) == Position_str(from_pos) \o Position_str(to_pos)

\* The candidates of the translation held in the state that is_valid_move
\* accepts on the board handed over.
LegalCandidates ==
    {c \in Range(locals.move_candidates) : is_valid_move(arg.board, c[1], c[2]).ret}

\* C1: translate_move succeeds if and only if exactly one (source,
\* destination) candidate derived from the notation passes is_valid_move on
\* the given board, and then answers that candidate; with no legal candidate
\* it fails; with two or more it fails with the message that holds
\* "bu mingque" and answers none of them.
C1_ExactlyOneLegalCandidate ==
    op = "translate_move" =>
        LET n == Cardinality(LegalCandidates)
        IN /\ ret.success <=> n = 1
           /\ n = 1 => \E c \in LegalCandidates : ret.iccs_move = <<iccs(c[1], c[2])>>
           /\ n = 0 => ~ret.success /\ ret.iccs_move = <<>>
           /\ n >= 2 => /\ ~ret.success
                        /\ ret.iccs_move = <<>>
                        /\ ret.board_after_move = <<>>
                        /\ "bu mingque" \in Range(ret.error_message[1])

\* C1 witness: on the two-cannon position a notation has two legal
\* candidates and the translation has failed.
C1_Witness ==
    /\ op = "translate_move"
    /\ arg.board = from_fen(FenTwoCannons, 0).ret
    /\ Cardinality(LegalCandidates) >= 2
    /\ ~ret.success

\* The squares that hold the piece a parsed notation names.
PiecesNamed(b, parsed_move) ==
    {pos \in Squares : get_piece(b, pos) = Piece(parsed_move.piece_type, parsed_move.color)}

\* C2: for a traverse notation every candidate destination has the rank of
\* its source and the board file 9 - n (Red) or n - 1 (Black) of the target
\* number n, and every source the notation selects has exactly one
\* destination; on the initial position with Red to move, pao er ping wu
\* resolves to the single move h2e2.
C2_TraverseSameRankMappedFile ==
    op = "translate_move" /\ locals.parsed_move # <<>> =>
        LET parsed_move == locals.parsed_move[1]
            cands == locals.move_candidates
            mapped(n) == IF parsed_move.color = RED THEN 9 - n ELSE n - 1
            sources ==
                IF parsed_move.is_front # "None" \/ parsed_move.is_middle # "None"
                THEN Range(disambiguate_tandem_pieces(
                               arg.board,
                               pieces_scan(arg.board, parsed_move.piece_type,
                                           parsed_move.color),
                               parsed_move))
                ELSE {pos \in PiecesNamed(arg.board, parsed_move) :
                          pos.file = mapped(parsed_move.source_file)}
        IN /\ parsed_move.movement = "traverse" =>
                  /\ \A i \in DOMAIN cands :
                         /\ cands[i][2].rank = cands[i][1].rank
                         /\ cands[i][2].file = mapped(parsed_move.target)
                  /\ \A i, j \in DOMAIN cands : cands[i][1] = cands[j][1] => i = j
                  /\ {cands[i][1] : i \in DOMAIN cands} = sources
           /\ (arg.board = initial_position(0)
                   /\ arg.chinese_move = <<"pao", "er", "ping", "wu">>) =>
                  /\ cands = <<<<Position(7, 2), Position(4, 2)>>>>
                  /\ ret.success
                  /\ ret.iccs_move = <<<<"h", "2", "e", "2">>>>

\* C2 witness: pao er ping wu has been translated on the initial position.
C2_Witness ==
    /\ op = "translate_move"
    /\ arg.board = initial_position(0)
    /\ arg.chinese_move = <<"pao", "er", "ping", "wu">>
    /\ locals.parsed_move[1].movement = "traverse"
    /\ ret.success

\* The calls that are handed the caller's board.
BoardCalls ==
    {"translate_move", "is_valid_move", "is_in_check", "get_legal_moves",
     "is_checkmate", "is_stalemate"}

\* C3: is_valid_move, is_in_check, get_legal_moves, is_checkmate,
\* is_stalemate and translate_move, with and without include_board_after,
\* leave the board handed to them as it was in every square, in the side to
\* move, the halfmove clock and the fullmove number, whether they succeed or
\* fail; the board after the move is another object.
C3_BoardArgumentUnchanged ==
    op \in BoardCalls =>
        /\ \A pos \in Squares : get_piece(board, pos) = get_piece(arg.board, pos)
        /\ board.active_color = arg.board.active_color
        /\ board.halfmove_clock = arg.board.halfmove_clock
        /\ board.fullmove_number = arg.board.fullmove_number
        /\ board.id = arg.board.id
        /\ (op = "translate_move" /\ ret.board_after_move # <<>>) =>
               ret.board_after_move[1].id # arg.board.id

\* C3 witness: a translation has moved a piece on the board it returns and
\* the caller's board is as it was handed over.
C3_Witness ==
    /\ op = "translate_move"
    /\ ret.success
    /\ ret.board_after_move # <<>>
    /\ ret.board_after_move[1].board # arg.board.board
    /\ board = arg.board

\* C4: every translate_move and translate_from_fen call returns a
\* TranslationResult; on success iccs_move is set and error_message is None;
\* on a failure success is False, error_message is set, and iccs_move and
\* board_after_move are None.
C4_ResultIsWholeOrFailure ==
    op \in {"translate_move", "translate_from_fen"} =>
        /\ DOMAIN ret = {"success", "iccs_move", "error_message", "board_after_move"}
        /\ ret.success \in BOOLEAN
        /\ ret.success => /\ Len(ret.iccs_move) = 1
                          /\ ret.error_message = <<>>
        /\ ~ret.success => /\ Len(ret.error_message) = 1
                           /\ ret.error_message[1] # <<>>
                           /\ ret.iccs_move = <<>>
                           /\ ret.board_after_move = <<>>

\* C4 witness: translate_from_fen has failed on a text from_fen refuses.
C4_Witness ==
    /\ op = "translate_from_fen"
    /\ from_fen(arg.fen, 0).raised # NoError
    /\ ~ret.success

\* C5: the list get_legal_moves(color) returns holds exactly the pairs
\* (from, to) such that from holds a piece of the color and
\* is_valid_move(from, to) is true, each of them once.
C5_LegalMovesAreTheValidMoves ==
    op = "get_legal_moves" =>
        /\ Range(ret) = {m \in Squares \X Squares :
                             /\ get_piece(arg.board, m[1]) # None
                             /\ get_piece(arg.board, m[1]).color = arg.color
                             /\ is_valid_move(arg.board, m[1], m[2]).ret}
        /\ \A i, j \in DOMAIN ret : ret[i] = ret[j] => i = j

\* C5 witness: the legal moves of Red have been listed where the cannon on
\* e2 shields the King; its move to d2 is not among them.
C5_Witness ==
    /\ op = "get_legal_moves"
    /\ arg.board = from_fen(FenPinned, 0).ret
    /\ arg.color = RED
    /\ Len(ret) > 0
    /\ <<Position(4, 2), Position(3, 2)>> \notin Range(ret)

\* C6: whenever is_valid_move(from, to) is true on a board where the moving
\* side has a King, the position after the move is one in which
\* is_in_check(moving side) is false.
C6_ValidMoveLeavesKingSafe ==
    (op = "is_valid_move" /\ ret
         /\ find_king(arg.board, get_piece(arg.board, arg.from_pos).color).found) =>
        ~is_in_check(move_piece(arg.board, arg.from_pos, arg.to_pos).self,
                     get_piece(arg.board, arg.from_pos).color).ret

\* C6 witness: a side that is in check has a valid move.
C6_Witness ==
    /\ op = "is_valid_move"
    /\ ret
    /\ find_king(arg.board, get_piece(arg.board, arg.from_pos).color).found
    /\ is_in_check(arg.board, get_piece(arg.board, arg.from_pos).color).ret

\* The pieces a tandem flag selects, file by file: Front the piece of the
\* highest rank for Red and of the lowest for Black, Back the opposite end,
\* Middle the second from the front of three or more.
TandemSelection(b, parsed_move) ==
    LET on(f) == {pos \in PiecesNamed(b, parsed_move) : pos.file = f}
        ahead(p, q) == IF parsed_move.color = RED THEN p.rank > q.rank ELSE p.rank < q.rank
        nth(S, n) == {p \in S : Cardinality({q \in S : ahead(q, p)}) = n - 1}
        pick(S) == IF Cardinality(S) < 2 THEN {}
                   ELSE IF parsed_move.is_front = "True" THEN nth(S, 1)
                   ELSE IF parsed_move.is_front = "False" THEN nth(S, Cardinality(S))
                   ELSE IF Cardinality(S) >= 3 THEN nth(S, 2)
                   ELSE {}
    IN UNION {pick(on(f)) : f \in Files}

\* C7: under a tandem flag the source squares are chosen per file: for each
\* file holding at least two pieces of the named kind and side, Front
\* selects the piece of the highest rank for Red (lowest for Black), Back the
\* piece of the lowest rank for Red (highest for Black), Middle the second in
\* that order and only of three or more; a file holding one such piece gives
\* no candidate.
C7_TandemSelectionPerFile ==
    (op = "translate_move" /\ locals.parsed_move # <<>>
         /\ (locals.parsed_move[1].is_front # "None"
                \/ locals.parsed_move[1].is_middle # "None")) =>
        LET parsed_move == locals.parsed_move[1]
            chosen == disambiguate_tandem_pieces(
                          arg.board,
                          pieces_scan(arg.board, parsed_move.piece_type, parsed_move.color),
                          parsed_move)
            cands == locals.move_candidates
        IN /\ Range(chosen) = TandemSelection(arg.board, parsed_move)
           /\ \A i, j \in DOMAIN chosen : chosen[i] = chosen[j] => i = j
           /\ \A i \in DOMAIN cands : cands[i][1] \in TandemSelection(arg.board, parsed_move)
           /\ parsed_move.movement = "traverse" =>
                  {cands[i][1] : i \in DOMAIN cands} = TandemSelection(arg.board, parsed_move)

\* C7 witness: of the pawns on e5, e4, e3 and e2, zhong has selected e4.
C7_Witness ==
    /\ op = "translate_move"
    /\ arg.board = from_fen(FenThreePawns, 0).ret
    /\ locals.parsed_move # <<>>
    /\ locals.parsed_move[1].is_middle = "True"
    /\ locals.parsed_move[1].piece_type = PAWN
    /\ \E i \in DOMAIN locals.move_candidates :
           locals.move_candidates[i][1] = Position(4, 4)

\* The translation, on the board handed over, of the notation of the state
\* with hou in the place of qian.
BackCounterpart ==
    translate_move(arg.board, <<"hou">> \o Tail(strip(arg.chinese_move)),
                   arg.include_board_after)

\* C8: if the notation flagged Front and the notation flagged Back, of the
\* same piece kind, movement and target, both resolve on a board, the two
\* moves have different source squares, also when several files hold
\* tandems; on the two-cannon position pao er ping wu is ambiguous, and
\* qian pao ping wu and hou pao ping wu resolve to h4e4 and h2e2.
C8_FrontAndBackDiffer ==
    op = "translate_move" =>
        /\ (ret.success /\ locals.parsed_move[1].is_front = "True"
                /\ BackCounterpart.ret.success) =>
               /\ locals.valid_moves[1][1] # BackCounterpart.locals.valid_moves[1][1]
               /\ SubSeq(ret.iccs_move[1], 1, 2)
                      # SubSeq(BackCounterpart.ret.iccs_move[1], 1, 2)
               /\ ret.iccs_move # BackCounterpart.ret.iccs_move
        /\ arg.board = from_fen(FenTwoCannons, 0).ret =>
               /\ arg.chinese_move = <<"pao", "er", "ping", "wu">> =>
                      /\ ~ret.success
                      /\ "bu mingque" \in Range(ret.error_message[1])
               /\ arg.chinese_move = <<"qian", "pao", "ping", "wu">> =>
                      ret.success /\ ret.iccs_move = <<<<"h", "4", "e", "4">>>>
               /\ arg.chinese_move = <<"hou", "pao", "ping", "wu">> =>
                      ret.success /\ ret.iccs_move = <<<<"h", "2", "e", "2">>>>

\* C8 witness: on the position with pawn tandems on two files the Front
\* notation and its Back counterpart have both resolved.
C8_Witness ==
    /\ op = "translate_move"
    /\ arg.board = from_fen(FenRedTandems, 0).ret
    /\ ret.success
    /\ locals.parsed_move[1].is_front = "True"
    /\ BackCounterpart.ret.success

\* C9: when board_after_move of a successful translate_move is what the
\* next move is translated from, the side to move changes with every move,
\* and the fullmove number grows by one with a move of Black and stays with
\* a move of Red.
C9_SidesAlternate ==
    [][op' = "feed" =>
           /\ board'.active_color # board.active_color
           /\ board'.active_color \in Colors
           /\ board'.fullmove_number =
                  board.fullmove_number + (IF board.active_color = BLACK THEN 1 ELSE 0)]_vars

\* C9 witness: Red and then Black have moved from the initial position.
C9_Witness ==
    /\ op = "feed"
    /\ board.id = 2
    /\ board.active_color = RED
    /\ board.fullmove_number = 2

\* A text with fewer than the four fields from_fen asks for, or a board
\* field that has not ten rank records, or a clock field that is no number.
Undecodable(fen) ==
    LET parts == split_ws(fen)
        number(s) == LET body == IF s # <<>> /\ s[1] \in {"+", "-"} THEN Tail(s) ELSE s
                     IN body # <<>> /\ \A i \in DOMAIN body : body[i] \in Digits
    IN \/ Len(parts) < 4
       \/ Cardinality({i \in DOMAIN parts[1] : parts[1][i] = "/"}) # 9
       \/ Len(parts) > 4 /\ ~number(parts[5])
       \/ Len(parts) > 5 /\ ~number(parts[6])

\* C10: a board text with fewer than the required fields, with a board
\* field that has not exactly ten rank records, or with an unparsable clock
\* field yields no board: from_fen raises, translate_from_fen returns a
\* failure with an error message, and the package's get_legal_moves returns
\* success False.
C10_UndecodableTextYieldsNoBoard ==
    (op \in {"from_fen", "translate_from_fen", "api_get_legal_moves"}
         /\ Undecodable(arg.fen)) =>
        /\ op = "from_fen" => ret.raised # NoError
        /\ op = "translate_from_fen" =>
               /\ ~ret.success
               /\ ret.error_message # <<>>
               /\ ret.iccs_move = <<>>
               /\ ret.board_after_move = <<>>
        /\ op = "api_get_legal_moves" =>
               /\ ~ret.success
               /\ ret.moves = <<>>
               /\ ret.error_message # <<>>

\* C10 witness: the package's get_legal_moves has answered a text of six
\* fields and ten rank records whose clock field is no number.
C10_Witness ==
    /\ op = "api_get_legal_moves"
    /\ Undecodable(arg.fen)
    /\ Len(split_ws(arg.fen)) = 6
    /\ Len(split_sep(split_ws(arg.fen)[1], "/")) = 10
    /\ ~ret.success


\* The squares a rank record describes.
RECURSIVE record_width(_)
record_width(rank_str) ==
    IF rank_str = <<>> THEN 0
    ELSE (IF isdigit(Head(rank_str)) THEN digit_value(Head(rank_str)) ELSE 1)
             + record_width(Tail(rank_str))

PieceLetters == {"K", "A", "B", "N", "R", "C", "P", "k", "a", "b", "n", "r", "c", "p"}

\* A rank record of piece letters and digits 1..9 that describes nine
\* squares, no digit next to a digit.
WellFormedRecord(rank_str) ==
    /\ \A i \in DOMAIN rank_str : rank_str[i] \in PieceLetters \cup (Digits \ {"0"})
    /\ \A i \in 1..(Len(rank_str) - 1) : ~(isdigit(rank_str[i]) /\ isdigit(rank_str[i + 1]))
    /\ record_width(rank_str) = 9

\* A number as str() writes it: digits, no sign, no leading zero.
DecimalNumeral(s) ==
    /\ s # <<>>
    /\ \A i \in DOMAIN s : isdigit(s[i])
    /\ Len(s) > 1 => s[1] # "0"

\* A well-formed board text: six fields with one blank between them, ten
\* well-formed rank records, the side w or b, two "-", and two numbers.
WellFormed(fen) ==
    LET fields == split_sep(fen, " ")
        records == split_sep(fields[1], "/")
    IN /\ Len(fields) = 6
       /\ Len(records) = 10
       /\ \A i \in DOMAIN records : WellFormedRecord(records[i])
       /\ fields[2] \in {<<"w">>, <<"b">>}
       /\ fields[3] = <<"-">>
       /\ fields[4] = <<"-">>
       /\ DecimalNumeral(fields[5])
       /\ DecimalNumeral(fields[6])

\* C11: from_fen reads every well-formed board text (ten rank records of
\* nine squares each with maximal digit runs, side w or b, two "-", halfmove
\* clock, fullmove number), and to_fen of the board it returns is the text.
C11_WellFormedTextRoundTrips ==
    (op = "from_fen" /\ WellFormed(arg.fen)) =>
        /\ ret.raised = NoError
        /\ to_fen(ret.ret) = arg.fen

\* C11 witness: a well-formed text with pieces, Black to move and the
\* fullmove number 20 has been read.
C11_Witness ==
    /\ op = "from_fen"
    /\ WellFormed(arg.fen)
    /\ split_ws(arg.fen)[1] = split_ws(FenInCheck)[1]
    /\ split_ws(arg.fen)[2] = <<"b">>
    /\ split_ws(arg.fen)[6] = <<"2", "0">>
    /\ ret.raised = NoError

\* A side has no legal move: no square holding one of its pieces has a
\* square is_valid_move accepts.
NoLegalMove(b, color) ==
    \A from_pos \in Squares :
        (get_piece(b, from_pos) # None /\ get_piece(b, from_pos).color = color) =>
            \A to_pos \in Squares : ~is_valid_move(b, from_pos, to_pos).ret

\* C12: is_checkmate(side) holds exactly when the side is in check and has
\* no legal move, is_stalemate(side) exactly when it is not in check and has
\* no legal move; the two are never both true, and both are false for Red
\* and for Black in the initial position.
C12_CheckmateAndStalemate ==
    op \in {"is_checkmate", "is_stalemate"} =>
        LET in_check == is_in_check(arg.board, arg.color).ret
            no_move == NoLegalMove(arg.board, arg.color)
        IN /\ op = "is_checkmate" => (ret <=> (in_check /\ no_move))
           /\ op = "is_stalemate" => (ret <=> (~in_check /\ no_move))
           /\ ~(is_checkmate(arg.board, arg.color).ret
                  /\ is_stalemate(arg.board, arg.color).ret)
           /\ arg.board = initial_position(0) => ~ret

\* C12 witness: is_checkmate has answered True for a side in check.
C12_Witness ==
    /\ op = "is_checkmate"
    /\ ret
    /\ is_in_check(arg.board, arg.color).ret
    /\ ~is_stalemate(arg.board, arg.color).ret

\* The square next to from_pos on the axis along which a Horse move to
\* to_pos is two squares long.
HorseLeg(from_pos, to_pos) ==
    IF abs(to_pos.file - from_pos.file) = 2
    THEN Position(from_pos.file + sign_step(from_pos.file, to_pos.file), from_pos.rank)
    ELSE Position(from_pos.file, from_pos.rank + sign_step(from_pos.rank, to_pos.rank))

\* C13: a Horse move satisfies the movement pattern exactly when it is two
\* squares along one axis and one along the other and the square next to the
\* source on the axis of two is empty, whatever stands on the destination;
\* with a Horse on e1 and a piece on e2, e1-f3 and e1-d3 are illegal and
\* e1-g2 and e1-c2 legal.
C13_HorseLeg ==
    /\ (op = "is_piece_move_valid" /\ arg.piece.piece_type = HORSE) =>
           LET file_diff == abs(arg.to_pos.file - arg.from_pos.file)
               rank_diff == abs(arg.to_pos.rank - arg.from_pos.rank)
           IN ret <=> /\ <<file_diff, rank_diff>> \in {<<2, 1>>, <<1, 2>>}
                      /\ get_piece(arg.board, HorseLeg(arg.from_pos, arg.to_pos)) = None
    /\ (op = "is_valid_move" /\ arg.board = from_fen(FenHorseBlocked, 0).ret
            /\ arg.from_pos = Position(4, 1)) =>
           /\ arg.to_pos \in {Position(5, 3), Position(3, 3)} => ~ret
           /\ arg.to_pos \in {Position(6, 2), Position(2, 2)} => ret

\* C13 witness: the pattern has refused a Horse move of the right shape
\* whose leg is blocked, to an empty square.
C13_Witness ==
    /\ op = "is_piece_move_valid"
    /\ arg.piece.piece_type = HORSE
    /\ abs(arg.to_pos.file - arg.from_pos.file) = 1
    /\ abs(arg.to_pos.rank - arg.from_pos.rank) = 2
    /\ get_piece(arg.board, arg.to_pos) = None
    /\ get_piece(arg.board, HorseLeg(arg.from_pos, arg.to_pos)) # None
    /\ ~ret

\* The squares strictly between two squares of one file or one rank.
Between(from_pos, to_pos) ==
    {pos \in Squares :
         \/ /\ from_pos.file = to_pos.file
            /\ pos.file = from_pos.file
            /\ \/ from_pos.rank < pos.rank /\ pos.rank < to_pos.rank
               \/ to_pos.rank < pos.rank /\ pos.rank < from_pos.rank
         \/ /\ from_pos.rank = to_pos.rank
            /\ pos.rank = from_pos.rank
            /\ \/ from_pos.file < pos.file /\ pos.file < to_pos.file
               \/ to_pos.file < pos.file /\ pos.file < from_pos.file}

\* The pieces strictly between two squares of one file or one rank.
Screens(b, from_pos, to_pos) ==
    Cardinality({pos \in Between(from_pos, to_pos) : get_piece(b, pos) # None})

\* C14: a Cannon move along a file or a rank satisfies the movement pattern
\* exactly when the destination is empty and no piece stands between source
\* and destination, or the destination is occupied and exactly one piece
\* stands between them.
C14_CannonScreen ==
    (op = "is_piece_move_valid" /\ arg.piece.piece_type = CANNON
         /\ (arg.from_pos.file = arg.to_pos.file \/ arg.from_pos.rank = arg.to_pos.rank)) =>
        LET n == Screens(arg.board, arg.from_pos, arg.to_pos)
        IN ret <=> IF get_piece(arg.board, arg.to_pos) = None THEN n = 0 ELSE n = 1

\* C14 witness: the pattern has refused a Cannon's capture over two pieces.
C14_Witness ==
    /\ op = "is_piece_move_valid"
    /\ arg.piece.piece_type = CANNON
    /\ arg.from_pos.file = arg.to_pos.file
    /\ get_piece(arg.board, arg.to_pos) # None
    /\ Screens(arg.board, arg.from_pos, arg.to_pos) = 2
    /\ ~ret

\* A single orthogonal step that is not backward and, if sideways, starts
\* beyond the river.
PawnStep(color, from_pos, to_pos) ==
    /\ \/ from_pos.file = to_pos.file /\ abs(to_pos.rank - from_pos.rank) = 1
       \/ from_pos.rank = to_pos.rank /\ abs(to_pos.file - from_pos.file) = 1
    /\ IF color = RED THEN to_pos.rank >= from_pos.rank ELSE to_pos.rank <= from_pos.rank
    /\ from_pos.rank = to_pos.rank =>
           IF color = RED THEN from_pos.rank >= 5 ELSE from_pos.rank <= 4

\* C15: a Pawn move satisfies the movement pattern exactly when it is a
\* single orthogonal step that is not backward (the rank never decreases for
\* Red, never increases for Black) and, if sideways, starts beyond the river
\* (source rank >= 5 for Red, <= 4 for Black); and no legal move made in a
\* sequence of legal moves takes a pawn's rank back toward its own side.
C15_PawnNeverBackward ==
    /\ [](op = "is_piece_move_valid" /\ arg.piece.piece_type = PAWN =>
              (ret <=> PawnStep(arg.piece.color, arg.from_pos, arg.to_pos)))
    /\ [][op' = "move_piece" /\ get_piece(board, arg.from_pos).piece_type = PAWN =>
              /\ get_piece(board', arg.to_pos) = get_piece(board, arg.from_pos)
              /\ IF get_piece(board, arg.from_pos).color = RED
                 THEN arg.to_pos.rank >= arg.from_pos.rank
                 ELSE arg.to_pos.rank <= arg.from_pos.rank]_vars

\* C15 witness: after the moves that took it over the river, a Red pawn has
\* made a legal sideways move.
C15_Witness ==
    /\ op = "move_piece"
    /\ get_piece(board, arg.to_pos) = Piece(PAWN, RED)
    /\ arg.from_pos.rank = arg.to_pos.rank
    /\ arg.from_pos.rank >= 5

\* The Kings of a position stand on one file.
KingsOnOneFile(b) ==
    \E red \in Squares, black \in Squares :
        /\ get_piece(b, red) = Piece(KING, RED)
        /\ get_piece(b, black) = Piece(KING, BLACK)
        /\ red.file = black.file

\* The Kings of a position stand on one file with no piece between them.
KingsFace(b) ==
    \E red \in Squares, black \in Squares :
        /\ get_piece(b, red) = Piece(KING, RED)
        /\ get_piece(b, black) = Piece(KING, BLACK)
        /\ red.file = black.file
        /\ Screens(b, red, black) = 0

\* The position a move leaves.
PositionAfter(b, from_pos, to_pos) ==
    [b EXCEPT !.board[to_pos.rank][to_pos.file] = b.board[from_pos.rank][from_pos.file],
              !.board[from_pos.rank][from_pos.file] = None]

\* C16: a King move is legal only if the destination lies in the King's own
\* palace, it is exactly one orthogonal step, and in the position after the
\* move the two Kings do not stand on the same file with no piece between
\* them.
C16_KingMoveLegalOnlyIf ==
    (op \in {"is_valid_move", "is_piece_move_valid"}
         /\ get_piece(arg.board, arg.from_pos).piece_type = KING /\ ret) =>
        /\ arg.to_pos.file \in 3..5
        /\ IF get_piece(arg.board, arg.from_pos).color = RED
           THEN arg.to_pos.rank \in 0..2
           ELSE arg.to_pos.rank \in 7..9
        /\ abs(arg.to_pos.file - arg.from_pos.file)
               + abs(arg.to_pos.rank - arg.from_pos.rank) = 1
        /\ ~KingsFace(PositionAfter(arg.board, arg.from_pos, arg.to_pos))

\* C16 witness: a King has legally moved onto the file of the other King, a
\* piece standing between them.
C16_Witness ==
    /\ op = "is_valid_move"
    /\ get_piece(arg.board, arg.from_pos).piece_type = KING
    /\ ret
    /\ ~KingsOnOneFile(arg.board)
    /\ KingsOnOneFile(PositionAfter(arg.board, arg.from_pos, arg.to_pos))

\* The source squares a notation selects: the tandem pieces it names, or the
\* pieces of its kind and side on its source file.
SourcesSelected(b, parsed_move) ==
    IF parsed_move.is_front # "None" \/ parsed_move.is_middle # "None"
    THEN Range(disambiguate_tandem_pieces(
                   b, pieces_scan(b, parsed_move.piece_type, parsed_move.color),
                   parsed_move))
    ELSE {pos \in PiecesNamed(b, parsed_move) :
              pos.file = IF parsed_move.color = RED
                         THEN 9 - parsed_move.source_file
                         ELSE parsed_move.source_file - 1}

\* The ranks a notation shifts its piece by: toward the opponent for an
\* advance, toward its own side for a retreat.
RankShift(parsed_move) ==
    IF \/ parsed_move.color = RED /\ parsed_move.movement = "advance"
       \/ parsed_move.color = BLACK /\ parsed_move.movement = "retreat"
    THEN parsed_move.target
    ELSE 0 - parsed_move.target

\* C17: for King, Chariot, Cannon and Pawn with advance or retreat, the one
\* candidate destination of a source square is on the same file, the rank
\* shifted by the target number of steps, +rank for Red advance and Black
\* retreat, -rank for Black advance and Red retreat; a destination whose
\* rank falls outside 0..9 is discarded; on the initial position Red's
\* bing san jin yi resolves to g3g4.
C17_AdvanceRetreatDestination ==
    op = "translate_move" /\ locals.parsed_move # <<>> =>
        LET parsed_move == locals.parsed_move[1]
            cands == locals.move_candidates
        IN /\ (parsed_move.piece_type \in {KING, CHARIOT, CANNON, PAWN}
                   /\ parsed_move.movement \in {"advance", "retreat"}) =>
                  /\ \A i \in DOMAIN cands :
                         /\ cands[i][2].file = cands[i][1].file
                         /\ cands[i][2].rank = cands[i][1].rank + RankShift(parsed_move)
                  /\ \A i, j \in DOMAIN cands : cands[i][1] = cands[j][1] => i = j
                  /\ {cands[i][1] : i \in DOMAIN cands} =
                         {pos \in SourcesSelected(arg.board, parsed_move) :
                              pos.rank + RankShift(parsed_move) \in 0..9}
           /\ (arg.board = initial_position(0)
                   /\ arg.chinese_move = <<"bing", "san", "jin", "yi">>) =>
                  /\ cands = <<<<Position(6, 3), Position(6, 4)>>>>
                  /\ ret.success
                  /\ ret.iccs_move = <<<<"g", "3", "g", "4">>>>

\* C17 witness: of two pieces a retreat notation selects, the destination of
\* one has been kept and that of the other, off the board, discarded.
C17_Witness ==
    /\ op = "translate_move"
    /\ locals.parsed_move # <<>>
    /\ locals.parsed_move[1].piece_type \in {KING, CHARIOT, CANNON, PAWN}
    /\ locals.parsed_move[1].movement = "retreat"
    /\ Len(locals.move_candidates) = 1
    /\ Cardinality(SourcesSelected(arg.board, locals.parsed_move[1])) = 2

\* A message opens with the words of a failure reason.
HasReason(message, reason) ==
    /\ Len(message) >= Len(reason)
    /\ SubSeq(message, 1, Len(reason)) = reason

\* The result is the failure of one reason: no move, no board, one message
\* that opens with the reason's words and names the notation.
FailsWith(result, reason, chinese_move) ==
    /\ ~result.success
    /\ result.iccs_move = <<>>
    /\ result.board_after_move = <<>>
    /\ result.error_message = <<reason \o chinese_move>>
    /\ Cardinality({r \in {MsgUnparsable, MsgNotFound, MsgInvalid, MsgAmbiguous, MsgError} :
                        HasReason(result.error_message[1], r)}) = 1

\* The squares of the target file a Horse reaches from a square by the shape
\* of its move.
HorseTargets(parsed_move, from_pos) ==
    {pos \in Squares :
         /\ pos.file = IF parsed_move.color = RED THEN 9 - parsed_move.target
                       ELSE parsed_move.target - 1
         /\ <<abs(pos.file - from_pos.file), abs(pos.rank - from_pos.rank)>>
                \in {<<2, 1>>, <<1, 2>>}}

\* C18: the failure reason of translate_move is that of the stage that
\* empties the candidate set: where no piece of the named kind and side
\* passes the source-file or tandem filter, or no target square is computed,
\* the result is the piece-not-found failure; where candidates exist and none
\* passes the legality check, the invalid-move failure - so for a Horse
\* advance whose leg is blocked, blocked legs not being filtered out of the
\* candidates; one reason is reported.
C18_FailureReasonByStage ==
    op = "translate_move" /\ locals.parsed_move # <<>> =>
        LET parsed_move == locals.parsed_move[1]
            cands == locals.move_candidates
            sources == SourcesSelected(arg.board, parsed_move)
        IN /\ sources = {} => cands = <<>>
           /\ {cands[i][1] : i \in DOMAIN cands} \subseteq sources
           /\ cands = <<>> => FailsWith(ret, MsgNotFound, arg.chinese_move)
           /\ (cands # <<>> /\ LegalCandidates = {}) =>
                  FailsWith(ret, MsgInvalid, arg.chinese_move)
           /\ (parsed_move.piece_type = HORSE
                   /\ parsed_move.movement \in {"advance", "retreat"}) =>
                  /\ \A from_pos \in sources :
                         \A to_pos \in HorseTargets(parsed_move, from_pos) :
                             <<from_pos, to_pos>> \in Range(cands)
                  /\ (cands # <<>>
                          /\ \A i \in DOMAIN cands :
                                 get_piece(arg.board, HorseLeg(cands[i][1], cands[i][2])) # None)
                         => FailsWith(ret, MsgInvalid, arg.chinese_move)

\* C18 witness: a Horse advance whose only candidate has a blocked leg and
\* an empty destination has been refused.
C18_Witness ==
    /\ op = "translate_move"
    /\ locals.parsed_move # <<>>
    /\ locals.parsed_move[1].piece_type = HORSE
    /\ locals.parsed_move[1].movement = "advance"
    /\ Len(locals.move_candidates) = 1
    /\ get_piece(arg.board, locals.move_candidates[1][2]) = None
    /\ get_piece(arg.board, HorseLeg(locals.move_candidates[1][1],
                                     locals.move_candidates[1][2])) # None
    /\ ~ret.success

\* C19 as stated: move_piece does not alter the board it is invoked on; the
\* board still shows the position before the move afterwards.
C19_BoardUntouchedByMovePiece ==
    op = "move_piece" => board = arg.board

\* C19, amended: move_piece alters the board it is invoked on; afterwards
\* that board, the same object, shows the position after the move - the
\* piece of the source square on the destination, the source square empty,
\* every other square, the side to move and the clocks as before - and the
\* value returned is the piece that stood on the destination, or None.
C19_MovePieceInPlace ==
    op = "move_piece" =>
        /\ board = PositionAfter(arg.board, arg.from_pos, arg.to_pos)
        /\ board.id = arg.board.id
        /\ get_piece(board, arg.to_pos) = get_piece(arg.board, arg.from_pos)
        /\ get_piece(board, arg.from_pos) = None
        /\ ret = get_piece(arg.board, arg.to_pos)

\* C19 witness: a piece has been moved on the caller's board, which no
\* longer shows the position before the move.
C19_Witness ==
    /\ op = "move_piece"
    /\ get_piece(arg.board, arg.from_pos) # None
    /\ get_piece(board, arg.from_pos) = None
    /\ board # arg.board

\* What a call answers when it runs alone on a board.
AloneResult(b, call, args) ==
    CASE call = "is_valid_move" -> is_valid_move(b, args.from_pos, args.to_pos).ret
      [] call = "get_legal_moves" -> get_legal_moves(b, args.color).ret
      [] call = "translate_move" -> translate_move(b, args.chinese_move, TRUE).ret

\* C20: in any interleaving of is_valid_move, get_legal_moves and
\* translate_move calls running at once on the same board each call returns
\* what it returns when run alone, and the shared board is at no step other
\* than it was: every simulated move is made on a copy, another object than
\* the shared board, held by the call that made it.
C20_ConcurrentCallsAsAlone ==
    op = "threads" =>
        /\ board = arg.board
        /\ \A t \in Threads :
               /\ locals[t].pc = "done" =>
                      ret[t] = <<AloneResult(arg.board, locals[t].call, locals[t].args)>>
               /\ locals[t].temp_board # <<>> =>
                      locals[t].temp_board[1].id # board.id

\* C20 witness: one call has returned a board after its move while the call
\* of the other thread holds a copy on which it has simulated another move.
C20_Witness ==
    /\ op = "threads"
    /\ locals[1].pc = "done"
    /\ locals[1].call = "translate_move"
    /\ ret[1][1].success
    /\ locals[2].pc = "scan"
    /\ locals[2].call = "get_legal_moves"
    /\ locals[2].temp_board[1] # ret[1][1].board_after_move[1]

\* The pieces Front has selected, and for each of them the other pieces of the
\* named kind and side on its file.
FrontChosen ==
    Range(disambiguate_tandem_pieces(
              arg.board,
              pieces_scan(arg.board, locals.parsed_move[1].piece_type,
                          locals.parsed_move[1].color),
              locals.parsed_move[1]))

FileMates(pos) ==
    {q \in PiecesNamed(arg.board, locals.parsed_move[1]) : q.file = pos.file /\ q # pos}

\* A Front notation has been parsed.
FrontParsed ==
    /\ op = "translate_move"
    /\ locals.parsed_move # <<>>
    /\ locals.parsed_move[1].is_front = "True"

\* C21 as stated: the piece selected by Front, index 0 of the tandem
\* ordering, is the piece nearest the mover's own back rank among the pieces
\* of the kind on its file (the rank 0 end for Red, the rank 9 end for Black).
C21_FrontNearestOwnBackRank ==
    FrontParsed =>
        \A pos \in FrontChosen : \A q \in FileMates(pos) :
            IF locals.parsed_move[1].color = RED THEN pos.rank < q.rank
            ELSE pos.rank > q.rank

\* C21, amended: the piece selected by Front, index 0 of the tandem ordering,
\* is the piece farthest from the mover's own back rank among the pieces of
\* the kind on its file (the highest rank for Red, the lowest for Black).
C21_FrontFarthestFromOwnBackRank ==
    FrontParsed =>
        \A pos \in FrontChosen : \A q \in FileMates(pos) :
            IF locals.parsed_move[1].color = RED THEN pos.rank > q.rank
            ELSE pos.rank < q.rank

\* C21 witness: Front has selected a Black piece that has another of its
\* kind behind it on its file.
C21_Witness ==
    /\ FrontParsed
    /\ locals.parsed_move[1].color = BLACK
    /\ \E pos \in FrontChosen : \E q \in FileMates(pos) : q.rank > pos.rank

\* A translation has succeeded and returned the board after the move.
BoardAfterReturned ==
    /\ op = "translate_move"
    /\ ret.success
    /\ ret.board_after_move # <<>>

\* C22: on a successful translate_move with include_board_after, on
\* board_after_move the source square of the resolved move is empty and the
\* destination holds the piece that stood on the source, whatever stood on
\* the destination; every other square and the halfmove clock are as on the
\* input board, also after a capture or a pawn move.
C22_BoardAfterMove ==
    BoardAfterReturned =>
        LET after == ret.board_after_move[1]
            from_pos == locals.valid_moves[1][1]
            to_pos == locals.valid_moves[1][2]
        IN /\ ret.iccs_move = <<iccs(from_pos, to_pos)>>
           /\ from_pos # to_pos
           /\ get_piece(arg.board, from_pos) # None
           /\ get_piece(after, from_pos) = None
           /\ get_piece(after, to_pos) = get_piece(arg.board, from_pos)
           /\ \A pos \in Squares \ {from_pos, to_pos} :
                  get_piece(after, pos) = get_piece(arg.board, pos)
           /\ after.halfmove_clock = arg.board.halfmove_clock

\* C22 witness: the board after a capture has been returned, for a board
\* whose halfmove clock is not 0.
C22_Witness ==
    /\ BoardAfterReturned
    /\ get_piece(arg.board, locals.valid_moves[1][2]) # None
    /\ arg.board.halfmove_clock # 0

\* The squares and the three other fields of two boards are the same.
SameFields(b1, b2) ==
    /\ \A pos \in Squares : get_piece(b1, pos) = get_piece(b2, pos)
    /\ b1.active_color = b2.active_color
    /\ b1.halfmove_clock = b2.halfmove_clock
    /\ b1.fullmove_number = b2.fullmove_number

\* C23: b.copy() agrees with b on every square, on the side to move, on
\* the halfmove clock and on the fullmove number, and is another object; a
\* later set_piece or move_piece on one of the two boards leaves the other
\* exactly as it was.
C23_CopyIsIndependent ==
    /\ op = "copy" =>
           /\ SameFields(ret, board)
           /\ ret.id # board.id
           /\ board = arg.board
    /\ op \in {"set_piece_on", "move_piece_on"} =>
           /\ arg.on = "board" => locals.board_copy = arg.board_copy
           /\ arg.on = "board_copy" => board = arg.board

\* C23 witness: a write to the copy has made it differ from the board it
\* was copied from, a board with Black to move and clocks other than 0 and 1.
C23_Witness ==
    /\ op \in {"set_piece_on", "move_piece_on"}
    /\ arg.on = "board_copy"
    /\ locals.board_copy.board # arg.board_copy.board
    /\ locals.board_copy.board # board.board
    /\ board.active_color = BLACK
    /\ board.halfmove_clock = 4
    /\ board.fullmove_number = 7

\* The walk under way is on the board.
WalkOnBoard == is_position_valid(Position(locals.current_file, locals.current_rank))

\* The walk under way is along a file or a rank.
WalkAligned ==
    \/ arg.walk.from_pos.file = arg.walk.to_pos.file
    \/ arg.walk.from_pos.rank = arg.walk.to_pos.rank

\* C24: every walk that is_valid_move, is_in_check, get_legal_moves and
\* translate_move start in _is_path_clear and _count_pieces_between is
\* between two squares of one file or one rank, stays on the board, raises
\* nothing and comes to its end.
C24_WalksEnd ==
    /\ [](op = "walk" => WalkAligned /\ WalkOnBoard)
    /\ [](op # "raised")
    /\ (op = "walk" ~> op = "walked")

\* C24 witness: a walk of _count_pieces_between along a file has come to
\* its destination, four squares or more away, and has counted one piece.
C24_Witness ==
    /\ op = "walked"
    /\ arg.walk.kind = "count_pieces_between"
    /\ arg.walk.from_pos.file = arg.walk.to_pos.file
    /\ abs(arg.walk.from_pos.rank - arg.walk.to_pos.rank) > 3
    /\ locals.current_rank = arg.walk.to_pos.rank
    /\ ret = <<1>>

\* C25: whenever translate_move succeeds, the resolved move agrees with the
\* movement word of the notation, for every piece kind: on Advance the
\* destination rank is strictly nearer the opponent than the source rank
\* (greater for Red, smaller for Black), on Retreat strictly nearer the
\* mover's own side, on Traverse the rank is unchanged.
C25_MoveAgreesWithMovementWord ==
    (op = "translate_move" /\ ret.success) =>
        LET parsed_move == locals.parsed_move[1]
            from_pos == locals.valid_moves[1][1]
            to_pos == locals.valid_moves[1][2]
            forward == IF parsed_move.color = RED THEN to_pos.rank > from_pos.rank
                       ELSE to_pos.rank < from_pos.rank
            backward == IF parsed_move.color = RED THEN to_pos.rank < from_pos.rank
                        ELSE to_pos.rank > from_pos.rank
        IN CASE parsed_move.movement = "advance" -> forward
             [] parsed_move.movement = "retreat" -> backward
             [] parsed_move.movement = "traverse" -> to_pos.rank = from_pos.rank
             [] OTHER -> FALSE

\* A position has one King of each side.
OneKingEach(b) ==
    \A color \in Colors :
        Cardinality({pos \in Squares : get_piece(b, pos) = Piece(KING, color)}) = 1

\* C26: from a position with one King per side that do not face each
\* other, no move is_valid_move accepts, by a King or by any other piece,
\* leaves the two Kings on one file with no piece between them.
C26_NoAcceptedMoveLeavesKingsFacing ==
    (op = "is_valid_move" /\ ret /\ OneKingEach(arg.board) /\ ~KingsFace(arg.board)) =>
        ~KingsFace(PositionAfter(arg.board, arg.from_pos, arg.to_pos))

\* C27: in every position reached from the initial position by moves
\* is_valid_move has accepted, every King and every Advisor stands in its
\* own palace (files 3-5, ranks 0-2 for Red, 7-9 for Black) and every
\* Elephant on its own side of the river (ranks 0-4 for Red, 5-9 for Black).
C27_GuardsStayHome ==
    \A pos \in Squares :
        LET piece == get_piece(board, pos)
        IN /\ piece.piece_type \in {KING, ADVISOR} =>
                  /\ pos.file \in 3..5
                  /\ IF piece.color = RED THEN pos.rank \in 0..2 ELSE pos.rank \in 7..9
           /\ piece.piece_type = ELEPHANT =>
                  IF piece.color = RED THEN pos.rank \in 0..4 ELSE pos.rank \in 5..9

\* C27 witness: an Advisor in a corner of its palace, two moves from its
\* first square, has been refused the step out of the palace to an empty
\* square.
C27_Witness ==
    /\ op = "is_valid_move"
    /\ get_piece(board, arg.from_pos) = Piece(ADVISOR, RED)
    /\ arg.from_pos = Position(3, 2)
    /\ arg.to_pos = Position(2, 1)
    /\ get_piece(board, arg.to_pos) = None
    /\ ~ret

\* C28: in every position reached from the initial position by successful
\* translate_move results applied in turn, each side has exactly one King;
\* no resolved move captures a King or a piece of the mover's own side.
C28_OneKingEachSide ==
    /\ OneKingEach(board)
    /\ (op = "translate_move" /\ ret.success) =>
           LET from_pos == locals.valid_moves[1][1]
               to_pos == locals.valid_moves[1][2]
               target_piece == get_piece(arg.board, to_pos)
           IN /\ target_piece.piece_type # KING
              /\ target_piece.color # get_piece(arg.board, from_pos).color
              /\ get_piece(arg.board, from_pos).color = arg.board.active_color
              /\ OneKingEach(ret.board_after_move[1])

\* C28 witness: in a game, the second move of a side has captured a piece
\* and left the other side's King in check.
C28_Witness ==
    /\ op = "translate_move"
    /\ ret.success
    /\ arg.board.id >= 2
    /\ get_piece(arg.board, locals.valid_moves[1][2]) # None
    /\ is_in_check(ret.board_after_move[1], ret.board_after_move[1].active_color).ret

\* The square an ICCS move names from its k-th character on.
IccsSquare(iccs_move, k) ==
    Position(CHOOSE f \in Files : FileLetters[f + 1] = iccs_move[k],
             digit_value(iccs_move[k + 1]))

\* The board the i-th notation of the call is to be resolved on, given the
\* results before it: the initial board for the first, and for the others
\* the board before with the move before made on it.
RECURSIVE BoardBefore(_)
BoardBefore(i) ==
    IF i = 1 THEN arg.board
    ELSE PositionAfter(BoardBefore(i - 1),
                       IccsSquare(ret[i - 1].iccs_move[1], 1),
                       IccsSquare(ret[i - 1].iccs_move[1], 3))

\* C29: translate_multiple_moves on n notations returns k results, with
\* 1 <= k <= n (0 when n = 0); results 1..k-1 succeeded; k < n only when
\* result k failed, so no notation after the first failure is translated;
\* notation i is resolved on the position that moves 1..i-1 leave when made
\* on a copy of the initial board; the initial board is left as it was.
C29_MultipleMoves ==
    op = "translate_multiple_moves" =>
        LET n == Len(arg.chinese_moves)
            k == Len(ret)
        IN /\ IF n = 0 THEN k = 0 ELSE 1 <= k /\ k <= n
           /\ \A i \in 1..(k - 1) : ret[i].success
           /\ k < n => ~ret[k].success
           /\ \A i \in 1..k :
                  /\ ret[i] = translate_move(IF i = 1 THEN copy(arg.board)
                                             ELSE ret[i - 1].board_after_move[1],
                                             arg.chinese_moves[i], TRUE).ret
                  /\ ret[i].success =>
                         /\ ret[i].board_after_move # <<>>
                         /\ ret[i].board_after_move[1].id # arg.board.id
                         /\ \A pos \in Squares :
                                get_piece(ret[i].board_after_move[1], pos)
                                    = get_piece(BoardBefore(i + 1), pos)
           /\ board = arg.board

\* C29 witness: of three notations the first has been resolved for Red, the
\* second has failed on the board the first left, with Black to move, and
\* the third has not been translated.
C29_Witness ==
    /\ op = "translate_multiple_moves"
    /\ Len(arg.chinese_moves) = 3
    /\ Len(ret) = 2
    /\ ret[1].success
    /\ ret[1].board_after_move[1].active_color = BLACK
    /\ ~ret[2].success

\* The glyphs of the parser's table that are written for Black.
BlackPieceGlyphs == {"jiang", "shi_b", "xiang_b", "pao_b", "zu"}

\* The piece glyph of a notation: the first of its characters that the
\* parser's table of pieces holds.
GlyphNamed(chinese_move) ==
    chinese_move[CHOOSE i \in DOMAIN chinese_move :
                     /\ chinese_move[i] \in PieceGlyphs
                     /\ \A j \in 1..(i - 1) : chinese_move[j] \notin PieceGlyphs]

\* C30: whenever translate_move succeeds, the source square of the resolved
\* move holds, on the input board, a piece of the board's side to move and
\* of the kind the notation names, whichever side's glyph the notation is
\* written with; no piece of the other side is moved.
C30_SourceIsOfSideToMove ==
    (op = "translate_move" /\ ret.success) =>
        LET from_pos == locals.valid_moves[1][1]
            piece == get_piece(arg.board, from_pos)
        IN /\ piece # None
           /\ piece.color = arg.board.active_color
           /\ piece.piece_type = CHINESE_PIECES[GlyphNamed(arg.chinese_move)]
           /\ ret.iccs_move = <<iccs(from_pos, locals.valid_moves[1][2])>>

\* C30 witness: with Red to move, a notation written with a glyph of Black
\* has been resolved.
C30_Witness ==
    /\ op = "translate_move"
    /\ ret.success
    /\ arg.board.active_color = RED
    /\ GlyphNamed(arg.chinese_move) \in BlackPieceGlyphs

====
